---------------------------- MODULE Spec2Model ----------------------------
(***************************************************************************)
(* A model of the rips user-space TCP/IP stack core (src/src/stack.rs):    *)
(* NetworkStack, StackInterface, the per-interface worker thread           *)
(* (StackInterfaceThread), the transmit barrier (TxBarrier) and the        *)
(* versioned sender handles derived from it (TxImpl).                      *)
(*                                                                         *)
(* Threads of the model:                                                   *)
(*   api     the thread owning the NetworkStack; its methods take          *)
(*           &mut self, so API calls are sequential.  ipv4_tx and the      *)
(*           drop of a StackInterface take several steps.                  *)
(*   snd     threads that own TxImpl handles and send through them.  A     *)
(*           send holds the barrier mutex from the version comparison to   *)
(*           the end of the datalink call; the model keeps one send in     *)
(*           flight at a time.                                             *)
(*   worker  one StackInterfaceThread per interface.                       *)
(*   rx      the detached receive thread, which feeds the worker's queue.  *)
(***************************************************************************)
EXTENDS Integers, Sequences, FiniteSets, TLC

(***************************************************************************)
(* Bounds of the model.                                                    *)
(***************************************************************************)
\* Width of an IP address in the model (the code's Ipv4Addr has 32 bits).
IpBits == 3
\* The barrier version is a u64 with wrapping_add; TLC cannot count to
\* 2^64, so the model stops incrementing at MaxVersion (no wrap is reached).
MaxVersion == 3
\* Messages the worker's queue holds at most (the mpsc channel is unbounded).
MaxQueue == 2
\* TxImpl handles the application holds at the same time.
MaxHandles == 1
\* ARP waiter channels created over a run.
MaxWaiters == 2
\* ICMP listeners registered per (interface, local IP, type).
MaxListeners == 2
MaxLen == 3         \* bytes of a BasicEthernetPayload
MaxBuf == 3         \* bytes of a buffer handed to build
MaxPackets == 2     \* frames asked for in one EthernetTx send
MaxSize == 3        \* payload bytes per frame asked for in one send

(***************************************************************************)
(* Program constants.                                                      *)
(***************************************************************************)
DEFAULT_MTU == 1500
LOCAL_PORT_RANGE_START == 32768
LOCAL_PORT_RANGE_END == 61000

Interfaces == {"eth0", "eth1"}
IPs == 0 .. (2 ^ IpBits - 1)
\* Ipv4Addr::new(0, 0, 0, 0)
Unspecified == 0
BroadcastMac == "ff:ff:ff:ff:ff:ff"
PeerMacs == {"00:11:22:33:44:55", "00:11:22:33:44:66"}
NoMac == "none"
None == "None"
\* The absent value of a record-valued Option.
Nil == <<>>
\* Interface.mac
OwnMac(i) == i

EmptyMap == [x \in {} |-> None]
MapPut(m, k, v) == [x \in DOMAIN m \cup {k} |-> IF x = k THEN v ELSE m[x]]

(***************************************************************************)
(* Ipv4Network::contains: the addresses agree on the first `prefix` bits.  *)
(***************************************************************************)
Contains(net, a) ==
    (a \div 2 ^ (IpBits - net.prefix)) = (net.ip \div 2 ^ (IpBits - net.prefix))

VARIABLES
    interfaces,      \* NetworkStack.interfaces: the interfaces added
    routing_table,   \* NetworkStack.routing_table: set of routes
    version,         \* TxBarrier.version, per interface
    mutex,           \* holder of Mutex<TxBarrier> across a send, per interface
    mtu,             \* StackInterface.mtu
    ipv4_datas,      \* StackInterface.ipv4_datas: ip -> Ipv4Data
    ipv4_addresses,  \* StackInterfaceData.ipv4_addresses
    ipv4_listeners,  \* StackInterface.ipv4_listeners: ip -> protocols
    arp_table,       \* ArpTable bindings: ip -> mac
    arp_waiters,     \* ArpTable waiters: ip -> sequence of waiter channels
    chan,            \* the waiter channels: what each has been sent
    queue,           \* the worker's mpsc queue
    wpc,             \* the worker's position
    wmsg,            \* the ArpRequest message the worker is answering
    wtx,             \* the version snapshot of the worker's TxImpl
    dpc,             \* progress of the drop of the StackInterface
    apc,             \* the api thread's position
    actx,            \* locals of the api call in progress
    handles,         \* TxImpl-based senders held by the application
    sending,         \* the handle whose send holds the barrier mutex
    out,             \* the last observable outcome: the operation, the value
                     \* it returned and the datalink calls it made
    payload,         \* BasicEthernetPayload.payload
    offset,          \* BasicEthernetPayload.offset
    buffer,          \* the buffer of the last build call, after the call
    written,         \* the bytes the build calls have written so far
    ether_type,      \* BasicEthernetPayload.ether_type
    ethernet_tx      \* an EthernetTxImpl over a Tx: its src and dst

stackVars == <<interfaces, routing_table, mtu, ipv4_datas, ipv4_addresses,
               ipv4_listeners>>
barrierVars == <<version, mutex>>
arpVars == <<arp_table, arp_waiters, chan>>
workerVars == <<queue, wpc, wmsg, wtx>>
apiVars == <<apc, actx>>
sendVars == <<handles, sending>>
payloadVars == <<payload, offset, buffer, written, ether_type, ethernet_tx>>
vars == <<stackVars, barrierVars, arpVars, workerVars, apiVars, sendVars, dpc, out,
          payloadVars>>

\* An outcome: op returned res (None while the call has not returned) after
\* making the calls `frames` on the interface's EthernetDataLinkSender.
Out(op, res, frames) == [op |-> op, res |-> res, frames |-> frames]

(***************************************************************************)
(* NetworkStack::new: no interface, an empty routing table.  The fields    *)
(* of an interface take the values of StackInterface::new when it is       *)
(* added; before that they hold those same values.                         *)
(***************************************************************************)
InitStack ==
    /\ interfaces = {}
    /\ routing_table = {}
    /\ version = [i \in Interfaces |-> 0]
    /\ mutex = [i \in Interfaces |-> None]
    /\ mtu = [i \in Interfaces |-> DEFAULT_MTU]
    /\ ipv4_datas = [i \in Interfaces |-> EmptyMap]
    /\ ipv4_addresses = [i \in Interfaces |-> {}]
    /\ ipv4_listeners = [i \in Interfaces |-> EmptyMap]
    /\ arp_table = [i \in Interfaces |-> [a \in IPs |-> NoMac]]
    /\ arp_waiters = [i \in Interfaces |-> [a \in IPs |-> <<>>]]
    /\ chan = <<>>
    /\ queue = [i \in Interfaces |-> <<>>]
    /\ wpc = [i \in Interfaces |-> "unborn"]
    /\ wmsg = [i \in Interfaces |-> Nil]
    /\ wtx = [i \in Interfaces |-> 0]
    /\ dpc = [i \in Interfaces |-> "none"]
    /\ apc = "idle"
    /\ actx = Nil
    /\ handles = {}
    /\ sending = Nil
    /\ out = Out("new", "Ok", <<>>)

\* No BasicEthernetPayload is in use in the specifications of the stack.
Init ==
    /\ InitStack
    /\ payload = <<>>
    /\ offset = 0
    /\ buffer = <<>>
    /\ written = <<>>
    /\ ether_type = "Arp"
    /\ ethernet_tx = Nil


(***************************************************************************)
(* TxBarrier (stack.rs 511-560) and TxImpl (stack.rs 486-509).             *)
(***************************************************************************)
\* TxBarrier::inc: version.wrapping_add(1); the actions that call it are
\* guarded by CanInc, so the sum stays below the model's MaxVersion.
inc(v) == v + 1
CanInc(i) == version[i] < MaxVersion

\* The mutex is free: lock() returns.  A send keeps it from the version
\* comparison to the end of the datalink call; every other critical section
\* (version(), inc()) is one step.
Unlocked(i) == mutex[i] = None

\* TxImpl::send, line 503: the handle's snapshot against the barrier's version.
\* A comparison that accepts every handle: the barrier without line 503.
Stale_never(i, v) == FALSE

Stale(i, v) == v # version[i]

\* What the datalink sender returns: Some(Ok(())), Some(Err(e)), None.
DatalinkResults == {"Ok", "IoError", "NoBuf"}

\* A conversion that reports a missing buffer as success.
io_result_to_tx_result_ok(r) == IF r = "IoError" THEN "IoError" ELSE "Ok"

\* TxBarrier::io_result_to_tx_result (535-545).
io_result_to_tx_result(r) ==
    CASE r = "NoBuf" -> "Other(Insufficient buffer space)"
      [] r = "IoError" -> "IoError"
      [] OTHER -> "Ok"

\* The frame an EthernetTxImpl hands to the datalink sender.
Frame(kind, src_mac, dst_mac, a, b) ==
    [kind |-> kind, src_mac |-> src_mac, dst_mac |-> dst_mac, a |-> a, b |-> b]

(***************************************************************************)
(* ArpTable (src/arp, not among the sources; modelled from section 4.4).   *)
(***************************************************************************)
\* insert's return value: the binding is new or names a different MAC.
ArpChanged(i, ip, mac) == arp_table[i][ip] # mac

\* An insert that notifies the waiters of every IP of the interface and
\* drains only those of ip.
ArpInsert_notify_all(i, ip, mac) ==
    /\ arp_table' = [arp_table EXCEPT ![i][ip] = mac]
    /\ chan' = [w \in DOMAIN chan |->
                  IF \E a \in IPs : \E k \in DOMAIN arp_waiters[i][a] :
                        arp_waiters[i][a][k] = w
                  THEN Append(chan[w], mac) ELSE chan[w]]
    /\ arp_waiters' = [arp_waiters EXCEPT ![i][ip] = <<>>]

\* insert: update the binding, drain and notify every waiter of that IP.
ArpInsert(i, ip, mac) ==
    /\ arp_table' = [arp_table EXCEPT ![i][ip] = mac]
    /\ chan' = [w \in DOMAIN chan |->
                  IF \E k \in DOMAIN arp_waiters[i][ip] : arp_waiters[i][ip][k] = w
                  THEN Append(chan[w], mac) ELSE chan[w]]
    /\ arp_waiters' = [arp_waiters EXCEPT ![i][ip] = <<>>]

(***************************************************************************)
(* The worker: StackInterfaceThread (stack.rs 90-144).                     *)
(***************************************************************************)
UpdateArpTable(ip, mac) == [type |-> "UpdateArpTable", ip |-> ip, mac |-> mac]
ArpRequest(sender_ip, sender_mac, target_ip) ==
    [type |-> "ArpRequest", sender_ip |-> sender_ip, sender_mac |-> sender_mac,
     target_ip |-> target_ip]
Shutdown == [type |-> "Shutdown"]

\* The worker holds the read lock of ipv4_addresses while it answers an
\* ARP request (handle_arp_request, line 138 to the end of the function).
ReadLocked(i) == wpc[i] \in {"reply_tx", "reply_send"}

\* A worker that takes Shutdown off the queue and goes on receiving.
WorkerShutdown_continue(i) ==
    /\ wpc[i] = "recv"
    /\ queue[i] # <<>>
    /\ Head(queue[i]).type = "Shutdown"
    /\ queue' = [queue EXCEPT ![i] = Tail(@)]
    /\ wpc' = wpc
    /\ UNCHANGED <<stackVars, barrierVars, arpVars, wmsg, wtx, apiVars, sendVars, dpc, out>>
    /\ UNCHANGED payloadVars

\* run/process_msg on Shutdown: process_msg returns false, the loop breaks.
WorkerShutdown(i) ==
    /\ wpc[i] = "recv"
    /\ queue[i] # <<>>
    /\ Head(queue[i]).type = "Shutdown"
    /\ queue' = [queue EXCEPT ![i] = Tail(@)]
    /\ wpc' = [wpc EXCEPT ![i] = "done"]
    /\ UNCHANGED <<stackVars, barrierVars, arpVars, wmsg, wtx, apiVars, sendVars, dpc, out>>
    /\ UNCHANGED payloadVars

\* History: a binding of interface i's ARP table has changed to a different
\* MAC since h was created.
MarkArp(h, i) == IF h.iface = i THEN [h EXCEPT !.preArp = TRUE] ELSE h
Rebound(i, ip, mac) == arp_table[i][ip] \notin {NoMac, mac}
MarkArpChanged(i, ip, mac) ==
    /\ handles' = IF Rebound(i, ip, mac)
                  THEN {MarkArp(h, i) : h \in handles} ELSE handles
    /\ sending' = IF Rebound(i, ip, mac) /\ sending # Nil
                  THEN MarkArp(sending, i) ELSE sending

\* An update_arp that ignores what insert returned and always goes on to
\* increment the barrier.
update_arp_insert_always(i) ==
    /\ wpc[i] = "recv"
    /\ queue[i] # <<>>
    /\ Head(queue[i]).type = "UpdateArpTable"
    /\ ArpInsert(i, Head(queue[i]).ip, Head(queue[i]).mac)
    /\ MarkArpChanged(i, Head(queue[i]).ip, Head(queue[i]).mac)
    /\ wpc' = [wpc EXCEPT ![i] = "inc"]
    /\ queue' = [queue EXCEPT ![i] = Tail(@)]
    /\ UNCHANGED <<stackVars, barrierVars, wmsg, wtx, apiVars, dpc, out>>
    /\ UNCHANGED payloadVars

\* update_arp, line 129: arp_table.insert; when it returns true the worker
\* goes on to lock the barrier (line 130), which is a later step.
update_arp_insert(i) ==
    /\ wpc[i] = "recv"
    /\ queue[i] # <<>>
    /\ Head(queue[i]).type = "UpdateArpTable"
    /\ LET m == Head(queue[i]) IN
         /\ ArpInsert(i, m.ip, m.mac)
         /\ MarkArpChanged(i, m.ip, m.mac)
         /\ wpc' = [wpc EXCEPT ![i] = IF ArpChanged(i, m.ip, m.mac) THEN "inc" ELSE "recv"]
    /\ queue' = [queue EXCEPT ![i] = Tail(@)]
    /\ UNCHANGED <<stackVars, barrierVars, wmsg, wtx, apiVars, dpc, out>>
    /\ UNCHANGED payloadVars

\* History: the worker has incremented interface i's barrier for a changed
\* binding since h was created.
MarkArpInc(h, i) == IF h.iface = i THEN [h EXCEPT !.preArpInc = TRUE] ELSE h

\* update_arp, line 130: self.data.tx.lock().unwrap().inc().
update_arp_inc(i) ==
    /\ wpc[i] = "inc"
    /\ Unlocked(i)
    /\ CanInc(i)
    /\ version' = [version EXCEPT ![i] = inc(@)]
    /\ handles' = {MarkArpInc(h, i) : h \in handles}
    /\ wpc' = [wpc EXCEPT ![i] = "recv"]
    /\ UNCHANGED <<stackVars, mutex, arpVars, queue, wmsg, wtx, apiVars, sending, dpc, out>>
    /\ UNCHANGED payloadVars

\* A handle_arp_request that answers every request, local target or not.
handle_arp_request_any(i) ==
    /\ wpc[i] = "recv"
    /\ queue[i] # <<>>
    /\ Head(queue[i]).type = "ArpRequest"
    /\ wpc' = [wpc EXCEPT ![i] = "reply_tx"]
    /\ wmsg' = [wmsg EXCEPT ![i] = Head(queue[i])]
    /\ queue' = [queue EXCEPT ![i] = Tail(@)]
    /\ UNCHANGED <<stackVars, barrierVars, arpVars, wtx, apiVars, sendVars, dpc, out>>
    /\ UNCHANGED payloadVars

\* handle_arp_request, lines 138-139: the membership test under the read lock.
handle_arp_request(i) ==
    /\ wpc[i] = "recv"
    /\ queue[i] # <<>>
    /\ Head(queue[i]).type = "ArpRequest"
    /\ LET m == Head(queue[i]) IN
         IF m.target_ip \in ipv4_addresses[i]
         THEN /\ wpc' = [wpc EXCEPT ![i] = "reply_tx"]
              /\ wmsg' = [wmsg EXCEPT ![i] = m]
         ELSE /\ wpc' = wpc
              /\ wmsg' = wmsg
    /\ queue' = [queue EXCEPT ![i] = Tail(@)]
    /\ UNCHANGED <<stackVars, barrierVars, arpVars, wtx, apiVars, sendVars, dpc, out>>
    /\ UNCHANGED payloadVars

\* tx_send!(|| self.data.arp_reply_tx(); ..): StackInterfaceData::tx takes
\* the snapshot of the version under the lock (lines 50-53).
arp_reply_tx(i) ==
    /\ wpc[i] = "reply_tx"
    /\ Unlocked(i)
    /\ wtx' = [wtx EXCEPT ![i] = version[i]]
    /\ wpc' = [wpc EXCEPT ![i] = "reply_send"]
    /\ UNCHANGED <<stackVars, barrierVars, arpVars, queue, wmsg, apiVars, sendVars, dpc, out>>
    /\ UNCHANGED payloadVars

\* The Ethernet destination of an ARP reply: arp_reply_tx, line 65.
ArpReplyDst(m) == BroadcastMac

\* The ARP reply to the request m.
ArpReplyFrame(i, m) ==
    Frame("arp_reply", OwnMac(i), ArpReplyDst(m),
          [sender_ip |-> m.target_ip, sender_mac |-> OwnMac(i)],
          [target_ip |-> m.sender_ip, target_mac |-> m.sender_mac])

\* TxImpl::send of the reply (500-509): lock, compare and, when the
\* snapshot is current, TxBarrier::send under the same lock; InvalidTx makes
\* tx_send! build a new sender, any other result, Ok or an error of the
\* datalink, ends in unwrap_or(()) and the worker returns to its queue.
arp_reply_send(i, res) ==
    /\ wpc[i] = "reply_send"
    /\ Unlocked(i)
    /\ IF Stale(i, wtx[i])
       THEN /\ wpc' = [wpc EXCEPT ![i] = "reply_tx"]
            /\ UNCHANGED <<wmsg, out>>
       ELSE /\ out' = Out("arp_reply", res, <<ArpReplyFrame(i, wmsg[i])>>)
            /\ wpc' = [wpc EXCEPT ![i] = "recv"]
            /\ wmsg' = [wmsg EXCEPT ![i] = Nil]
    /\ UNCHANGED <<stackVars, barrierVars, arpVars, queue, wtx, apiVars, sendVars, dpc>>
    /\ UNCHANGED payloadVars

(***************************************************************************)
(* The receive thread: ArpRx (src/arp, not among the sources; modelled     *)
(* from section 4.4).  It keeps a clone of the queue's sender.             *)
(***************************************************************************)
QueueOpen(i) == wpc[i] \notin {"unborn", "done"}

\* An ARP reply or announcement: UpdateArpTable(sender_ip, sender_mac).
RxArpReply(i, ip, mac) ==
    /\ QueueOpen(i)
    /\ Len(queue[i]) < MaxQueue
    /\ queue' = [queue EXCEPT ![i] = Append(@, UpdateArpTable(ip, mac))]
    /\ UNCHANGED <<stackVars, barrierVars, arpVars, wpc, wmsg, wtx, apiVars, sendVars, dpc, out>>
    /\ UNCHANGED payloadVars

\* An ARP request: UpdateArpTable for the requester, then ArpRequest.
RxArpRequest(i, sender_ip, sender_mac, target_ip) ==
    /\ QueueOpen(i)
    /\ Len(queue[i]) + 1 < MaxQueue
    /\ queue' = [queue EXCEPT ![i] =
                   @ \o <<UpdateArpTable(sender_ip, sender_mac),
                          ArpRequest(sender_ip, sender_mac, target_ip)>>]
    /\ UNCHANGED <<stackVars, barrierVars, arpVars, wpc, wmsg, wtx, apiVars, sendVars, dpc, out>>
    /\ UNCHANGED payloadVars

(***************************************************************************)
(* RoutingTable (src/routing, not among the sources; modelled from         *)
(* sections 3 and 6: longest-prefix match over (network, gateway,          *)
(* interface) routes).  A gateway is <<>> (None) or <<ip>> (Some(ip)).     *)
(***************************************************************************)
Route(net, gw, i) == [net |-> net, gw |-> gw, iface |-> i]
add_route(rt, net, gw, i) == rt \cup {Route(net, gw, i)}
\* route(dst): the matching routes of the longest prefix (one is returned).
route(dst) ==
    LET M == {r \in routing_table : Contains(r.net, dst)} IN
    {r \in M : \A q \in M : q.net.prefix <= r.net.prefix}

(***************************************************************************)
(* NetworkStack and StackInterface: the calls of the api thread.           *)
(***************************************************************************)
\* No StackInterface has begun to drop: the NetworkStack is still owned.
StackAlive == \A i \in Interfaces : dpc[i] \in {"none", "live"}
ApiIdle == apc = "idle" /\ StackAlive

\* The call op returns r to the application.
apiReturn(op, r) == apc' = "idle" /\ actx' = Nil /\ out' = Out(op, r, <<>>)

\* NetworkStack::add_interface with StackInterface::new and the spawn of
\* the worker (stack.rs 327-339, 164-195, 91-105).
add_interface(i) ==
    /\ ApiIdle
    /\ IF i \in interfaces
       THEN /\ apiReturn("add_interface", "InvalidInterface")
            /\ UNCHANGED <<interfaces, wpc, dpc>>
       ELSE /\ interfaces' = interfaces \cup {i}
            /\ wpc' = [wpc EXCEPT ![i] = "recv"]
            /\ dpc' = [dpc EXCEPT ![i] = "live"]
            /\ apiReturn("add_interface", "Ok")
    /\ UNCHANGED <<routing_table, mtu, ipv4_datas, ipv4_addresses, ipv4_listeners,
                   barrierVars, arpVars, queue, wmsg, wtx, sendVars>>
    /\ UNCHANGED payloadVars

\* The IcmpType values of the model.
IcmpTypes == {"EchoRequest", "EchoReply"}

\* Ipv4Data as add_ipv4 creates it: the network, no listener yet.  An
\* IcmpType without entry is an IcmpType with an empty Vec.
Ipv4Data(net) ==
    [net |-> net, udp_listeners |-> EmptyMap, icmp_listeners |-> [t \in IcmpTypes |-> <<>>]]

\* An add_ipv4 that inserts without looking at the entry.
Occupied_never(i, ip) == FALSE

\* self.ipv4_datas.entry(ip) is Entry::Occupied (line 216).
Occupied(i, ip) == ip \in DOMAIN ipv4_datas[i]

\* An add_ipv4 without line 240: the worker's set is not told.
addresses_insert_skipped(S, ip) == S

\* self.data.ipv4_addresses.write().unwrap().insert(ip) (line 240).
addresses_insert(S, ip) == S \cup {ip}

\* An add_ipv4 that treats the new address as a change of configuration and
\* increments the barrier, as set_mtu does.
add_ipv4_inc(i, net) ==
    /\ ApiIdle
    /\ IF i \notin interfaces
       THEN /\ apiReturn("add_ipv4", "InvalidInterface")
            /\ UNCHANGED <<routing_table, ipv4_datas, ipv4_addresses, ipv4_listeners, version>>
       ELSE IF Occupied(i, net.ip)
       THEN /\ apiReturn("add_ipv4", "IllegalArgument")
            /\ UNCHANGED <<routing_table, ipv4_datas, ipv4_addresses, ipv4_listeners, version>>
       ELSE /\ ~ReadLocked(i)
            /\ Unlocked(i)
            /\ CanInc(i)
            /\ ipv4_listeners' = [ipv4_listeners EXCEPT ![i] = MapPut(@, net.ip, {"Udp", "Icmp"})]
            /\ ipv4_datas' = [ipv4_datas EXCEPT ![i] = MapPut(@, net.ip, Ipv4Data(net))]
            /\ ipv4_addresses' = [ipv4_addresses EXCEPT ![i] = addresses_insert(@, net.ip)]
            /\ routing_table' = add_route(routing_table, net, <<>>, i)
            /\ version' = [version EXCEPT ![i] = inc(@)]
            /\ apiReturn("add_ipv4", "Ok")
    /\ UNCHANGED <<interfaces, mtu, mutex, arpVars, workerVars, sendVars, dpc>>
    /\ UNCHANGED payloadVars

\* NetworkStack::add_ipv4 (367-371) with StackInterface::add_ipv4 (213-244).
\* The write lock of ipv4_addresses waits for the worker's read lock.
add_ipv4(i, net) ==
    /\ ApiIdle
    /\ IF i \notin interfaces
       THEN /\ apiReturn("add_ipv4", "InvalidInterface")
            /\ UNCHANGED <<routing_table, ipv4_datas, ipv4_addresses, ipv4_listeners>>
       ELSE IF Occupied(i, net.ip)
       THEN /\ apiReturn("add_ipv4", "IllegalArgument")
            /\ UNCHANGED <<routing_table, ipv4_datas, ipv4_addresses, ipv4_listeners>>
       ELSE /\ ~ReadLocked(i)
            /\ ipv4_listeners' = [ipv4_listeners EXCEPT ![i] = MapPut(@, net.ip, {"Udp", "Icmp"})]
            /\ ipv4_datas' = [ipv4_datas EXCEPT ![i] = MapPut(@, net.ip, Ipv4Data(net))]
            /\ ipv4_addresses' = [ipv4_addresses EXCEPT ![i] = addresses_insert(@, net.ip)]
            /\ routing_table' = add_route(routing_table, net, <<>>, i)
            /\ apiReturn("add_ipv4", "Ok")
    /\ UNCHANGED <<interfaces, mtu, barrierVars, arpVars, workerVars, sendVars, dpc>>
    /\ UNCHANGED payloadVars

\* NetworkStack::routing_table (361-363) hands out the table, and the
\* application adds a route of its own to it.
routing_table_add_route(net, gw, i) ==
    /\ ApiIdle
    /\ routing_table' = add_route(routing_table, net, gw, i)
    /\ apiReturn("add_route", "Ok")
    /\ UNCHANGED <<interfaces, mtu, ipv4_datas, ipv4_addresses, ipv4_listeners,
                   barrierVars, arpVars, workerVars, sendVars, dpc>>
    /\ UNCHANGED payloadVars

\* History: set_mtu has been called on interface i since h was created.
MarkMtu(h, i) == IF h.iface = i THEN [h EXCEPT !.preMtu = TRUE] ELSE h

\* StackInterface::get_mtu (283-285).
get_mtu(i) == mtu[i]

\* A set_mtu that returns early when the MTU is already m.
set_mtu_if_changed(i, m) ==
    /\ ApiIdle
    /\ i \in interfaces
    /\ Unlocked(i)
    /\ CanInc(i)
    /\ mtu' = [mtu EXCEPT ![i] = m]
    /\ version' = [version EXCEPT ![i] = IF mtu[i] = m THEN @ ELSE inc(@)]
    /\ handles' = {MarkMtu(h, i) : h \in handles}
    /\ apiReturn("set_mtu", "Ok")
    /\ UNCHANGED <<interfaces, routing_table, ipv4_datas, ipv4_addresses, ipv4_listeners,
                   mutex, arpVars, workerVars, sending, dpc>>
    /\ UNCHANGED payloadVars

\* StackInterface::set_mtu (287-290).
set_mtu(i, m) ==
    /\ ApiIdle
    /\ i \in interfaces
    /\ Unlocked(i)
    /\ CanInc(i)
    /\ mtu' = [mtu EXCEPT ![i] = m]
    /\ version' = [version EXCEPT ![i] = inc(@)]
    /\ handles' = {MarkMtu(h, i) : h \in handles}
    /\ apiReturn("set_mtu", "Ok")
    /\ UNCHANGED <<interfaces, routing_table, ipv4_datas, ipv4_addresses, ipv4_listeners,
                   mutex, arpVars, workerVars, sending, dpc>>
    /\ UNCHANGED payloadVars

\* A closest_local_ip that falls back to the local IPs of the interface when
\* no local network contains dst.
closest_local_ip_or_first(i, dst) ==
    IF \E ip \in DOMAIN ipv4_datas[i] : Contains(ipv4_datas[i][ip].net, dst)
    THEN {ip \in DOMAIN ipv4_datas[i] : Contains(ipv4_datas[i][ip].net, dst)}
    ELSE DOMAIN ipv4_datas[i]

\* closest_local_ip (294-301): the first entry, in the HashMap's order,
\* whose network contains dst; any of them can come first.
closest_local_ip(i, dst) ==
    {ip \in DOMAIN ipv4_datas[i] : Contains(ipv4_datas[i][ip].net, dst)}

\* The locals of StackInterface::ipv4_tx.
Ctx(i, dst, local_dst, src, mac, rx) ==
    [iface |-> i, dst |-> dst, local_dst |-> local_dst, src |-> src, mac |-> mac,
     rx |-> rx, tx |-> 0]

\* StackInterface::ipv4_tx to the ARP lookup (246-254).  arp_table.get
\* returns the binding or registers a waiter channel and returns its receiver.
StackInterface_ipv4_tx(i, dst, gw) ==
    LET local_dst == IF gw = <<>> THEN dst ELSE gw[1] IN
    IF closest_local_ip(i, local_dst) = {}
    THEN /\ apiReturn("ipv4_tx", "IllegalArgument")
         /\ UNCHANGED <<arp_waiters, chan>>
    ELSE \E src \in closest_local_ip(i, local_dst) :
         IF arp_table[i][local_dst] # NoMac
         THEN /\ apc' = "eth_tx"
              /\ actx' = Ctx(i, dst, local_dst, src, arp_table[i][local_dst], 0)
              /\ UNCHANGED <<arp_waiters, chan, out>>
         ELSE /\ Len(chan) < MaxWaiters
              /\ chan' = Append(chan, <<>>)
              /\ arp_waiters' = [arp_waiters EXCEPT ![i][local_dst] =
                                   Append(@, Len(chan) + 1)]
              /\ apc' = "arp_tx"
              /\ actx' = Ctx(i, dst, local_dst, src, NoMac, Len(chan) + 1)
              /\ out' = out

\* A NetworkStack::ipv4_tx that, without a route, tries the interfaces as if
\* dst were on their link.
ipv4_tx_on_link(dst) ==
    /\ ApiIdle
    /\ Cardinality(handles) < MaxHandles
    /\ LET R == IF route(dst) = {}
                THEN {Route([ip |-> dst, prefix |-> 0], <<>>, i) : i \in interfaces}
                ELSE route(dst)
       IN IF R = {}
          THEN /\ apiReturn("ipv4_tx", "NoRouteToHost")
               /\ UNCHANGED <<arp_waiters, chan>>
          ELSE \E r \in R : StackInterface_ipv4_tx(r.iface, dst, r.gw)
    /\ UNCHANGED <<stackVars, barrierVars, arp_table, workerVars, sendVars, dpc>>
    /\ UNCHANGED payloadVars

\* NetworkStack::ipv4_tx (373-383).
ipv4_tx(dst) ==
    /\ ApiIdle
    /\ Cardinality(handles) < MaxHandles
    /\ IF route(dst) = {}
       THEN /\ apiReturn("ipv4_tx", "NoRouteToHost")
            /\ UNCHANGED <<arp_waiters, chan>>
       ELSE \E r \in route(dst) :
            IF r.iface \notin interfaces
            THEN /\ apiReturn("ipv4_tx", "IllegalArgument")
                 /\ UNCHANGED <<arp_waiters, chan>>
            ELSE StackInterface_ipv4_tx(r.iface, dst, r.gw)
    /\ UNCHANGED <<stackVars, barrierVars, arp_table, workerVars, sendVars, dpc>>
    /\ UNCHANGED payloadVars

\* tx_send!(|| self.arp_request_tx(); src, local_dst), line 255: the new
\* sender's snapshot of the version (StackInterfaceData::tx, 50-53).
arp_request_tx ==
    /\ apc = "arp_tx"
    /\ Unlocked(actx.iface)
    /\ actx' = [actx EXCEPT !.tx = version[actx.iface]]
    /\ apc' = "arp_send"
    /\ UNCHANGED <<stackVars, barrierVars, arpVars, workerVars, sendVars, dpc, out>>
    /\ UNCHANGED payloadVars

\* The ARP request ipv4_tx sends, to the broadcast MAC (59-62).
ArpRequestFrame(i, src, target) ==
    Frame("arp_request", OwnMac(i), BroadcastMac,
          [sender_ip |-> src, sender_mac |-> OwnMac(i)], [target_ip |-> target])

\* TxImpl::send of the ARP request (500-509): lock, compare and, when the
\* snapshot is current, TxBarrier::send under the same lock.  InvalidTx makes
\* tx_send! build a new sender; another error leaves ipv4_tx through `?`
\* (line 255); after Ok the call blocks on rx.
arp_request_send(res) ==
    /\ apc = "arp_send"
    /\ Unlocked(actx.iface)
    /\ IF Stale(actx.iface, actx.tx)
       THEN /\ apc' = "arp_tx"
            /\ UNCHANGED <<actx, out>>
       ELSE LET f == ArpRequestFrame(actx.iface, actx.src, actx.local_dst) IN
            IF res = "Ok"
            THEN /\ apc' = "wait"
                 /\ actx' = actx
                 /\ out' = Out("ipv4_tx", None, <<f>>)
            ELSE /\ apc' = "idle"
                 /\ actx' = Nil
                 /\ out' = Out("ipv4_tx", res, <<f>>)
    /\ UNCHANGED <<stackVars, barrierVars, arpVars, workerVars, sendVars, dpc>>
    /\ UNCHANGED payloadVars

\* rx.recv().unwrap() (line 256): returns once the waiter was notified.
ipv4_tx_recv ==
    /\ apc = "wait"
    /\ chan[actx.rx] # <<>>
    /\ actx' = [actx EXCEPT !.mac = Head(chan[actx.rx])]
    /\ chan' = [chan EXCEPT ![actx.rx] = Tail(@)]
    /\ apc' = "eth_tx"
    /\ UNCHANGED <<stackVars, barrierVars, arp_table, arp_waiters, workerVars,
                   sendVars, dpc, out>>
    /\ UNCHANGED payloadVars

\* A sender whose IP destination is the next hop of the call in progress.
Handle_to_next_hop(i, v, dst_mac, src, dst, m) ==
    [iface |-> i, version |-> v, dst_mac |-> dst_mac, src |-> src,
     dst |-> actx.local_dst, mtu |-> m, preMtu |-> FALSE, preArp |-> FALSE, preArpInc |-> FALSE]

\* The sender ipv4_tx returns: Ipv4TxImpl over EthernetTxImpl over TxImpl.
Handle(i, v, dst_mac, src, dst, m) ==
    [iface |-> i, version |-> v, dst_mac |-> dst_mac, src |-> src, dst |-> dst,
     mtu |-> m, preMtu |-> FALSE, preArp |-> FALSE, preArpInc |-> FALSE]

\* The version a new TxImpl carries: StackInterfaceData::tx (50-53).
tx(i) == version[i]

\* self.ethernet_tx(dst_mac) and Ipv4TxImpl::new (259-260).
ipv4_tx_ethernet_tx ==
    /\ apc = "eth_tx"
    /\ Unlocked(actx.iface)
    /\ handles' = handles \cup {Handle(actx.iface, tx(actx.iface), actx.mac,
                                       actx.src, actx.dst, mtu[actx.iface])}
    /\ apiReturn("ipv4_tx", "Ok")
    /\ UNCHANGED <<stackVars, barrierVars, arpVars, workerVars, sending, dpc>>
    /\ UNCHANGED payloadVars

(***************************************************************************)
(* Listeners.  A UdpListenerLookup maps a port to its listener, an         *)
(* IcmpListenerLookup maps an IcmpType to the Vec of its listeners.        *)
(***************************************************************************)
\* The interfaces that have local_ip bound.
Owners(local_ip) == {i \in interfaces : local_ip \in DOMAIN ipv4_datas[i]}

\* A contains_key that finds no port.
contains_key_never(listeners, port) == FALSE

\* udp_listeners.contains_key(&port) (lines 453 and 476).
contains_key(listeners, port) == port \in DOMAIN listeners

\* get_random_port (469-481): a sample of the range that no listener holds.
\* The model draws from the two ends of [START, END).
PortSamples == {LOCAL_PORT_RANGE_START, LOCAL_PORT_RANGE_END - 1}
\* A get_random_port whose range includes LOCAL_PORT_RANGE_END.
get_random_port_inclusive(listeners) ==
    {n \in PortSamples \cup {LOCAL_PORT_RANGE_END} : ~contains_key(listeners, n)}

get_random_port(listeners) == {n \in PortSamples : ~contains_key(listeners, n)}

\* NetworkStack::udp_listen_ipv4 (439-467).  The loop returns at the first
\* interface, in the HashMap's order, that has local_ip bound.
udp_listen_ipv4(local_ip, port, listener) ==
    /\ ApiIdle
    /\ IF local_ip = Unspecified
       THEN /\ apiReturn("udp_listen", "AddrNotAvailable")
            /\ UNCHANGED ipv4_datas
       ELSE IF Owners(local_ip) = {}
       THEN /\ apiReturn("udp_listen", "InvalidInput")
            /\ UNCHANGED ipv4_datas
       ELSE \E i \in Owners(local_ip) :
            LET udp_listeners == ipv4_datas[i][local_ip].udp_listeners IN
            \E local_port \in IF port = 0 THEN get_random_port(udp_listeners) ELSE {port} :
                IF ~contains_key(udp_listeners, local_port)
                THEN /\ ipv4_datas' = [ipv4_datas EXCEPT ![i][local_ip].udp_listeners =
                                         MapPut(@, local_port, listener)]
                     /\ apc' = "idle"
                     /\ actx' = Nil
                     /\ out' = [op |-> "udp_listen", res |-> "Ok", frames |-> <<>>,
                                addr |-> <<local_ip, local_port>>]
                ELSE /\ apiReturn("udp_listen", "AddrInUse")
                     /\ UNCHANGED ipv4_datas
    /\ UNCHANGED <<interfaces, routing_table, mtu, ipv4_addresses, ipv4_listeners,
                   barrierVars, arpVars, workerVars, sendVars, dpc>>
    /\ UNCHANGED payloadVars

\* A registration that puts the listener at the front of the list.
icmp_push_front(listeners, icmp_type, listener) ==
    [listeners EXCEPT ![icmp_type] = <<listener>> \o @]

\* icmp_listeners.entry(icmp_type).or_insert_with(Vec::new).push(..) (275).
icmp_push(listeners, icmp_type, listener) ==
    [listeners EXCEPT ![icmp_type] = Append(@, listener)]

IcmpRoom(i, local_ip, icmp_type) ==
    Len(ipv4_datas[i][local_ip].icmp_listeners[icmp_type]) < MaxListeners

\* NetworkStack::icmp_listen (392-415) with StackInterface::icmp_listen
\* (266-281) on every interface.
icmp_listen(local_ip, icmp_type, listener) ==
    /\ ApiIdle
    /\ IF local_ip = Unspecified \/ Owners(local_ip) = {}
       THEN /\ apiReturn("icmp_listen", "InvalidInput")
            /\ UNCHANGED ipv4_datas
       ELSE /\ \A i \in Owners(local_ip) : IcmpRoom(i, local_ip, icmp_type)
            /\ ipv4_datas' = [i \in Interfaces |->
                  IF i \in Owners(local_ip)
                  THEN [ipv4_datas[i] EXCEPT ![local_ip].icmp_listeners =
                          icmp_push(@, icmp_type, listener)]
                  ELSE ipv4_datas[i]]
            /\ apiReturn("icmp_listen", "Ok")
    /\ UNCHANGED <<interfaces, routing_table, mtu, ipv4_addresses, ipv4_listeners,
                   barrierVars, arpVars, workerVars, sendVars, dpc>>
    /\ UNCHANGED payloadVars

(***************************************************************************)
(* Drop of a StackInterface.  Rust runs Drop::drop of the struct first     *)
(* (304-308: the barrier is bumped), then drops the fields in declaration  *)
(* order (154-161): data, mtu, _thread_handle, whose drop (81-88) sends    *)
(* Shutdown and joins the worker.                                          *)
(***************************************************************************)
\* A StackInterface without its Drop impl: the teardown starts and the
\* barrier stays as it is.
drop_no_inc(i) ==
    /\ apc = "idle"
    /\ dpc[i] = "live"
    /\ Unlocked(i)
    /\ CanInc(i)
    /\ dpc' = [dpc EXCEPT ![i] = "bumped"]
    /\ apc' = "drop"
    /\ UNCHANGED <<stackVars, barrierVars, arpVars, workerVars, actx, sendVars, out>>
    /\ UNCHANGED payloadVars

\* Drop::drop of StackInterface (304-308): self.data.tx.lock().unwrap().inc().
drop_inc(i) ==
    /\ apc = "idle"
    /\ dpc[i] = "live"
    /\ Unlocked(i)
    /\ CanInc(i)
    /\ version' = [version EXCEPT ![i] = inc(@)]
    /\ dpc' = [dpc EXCEPT ![i] = "bumped"]
    /\ apc' = "drop"
    /\ UNCHANGED <<stackVars, mutex, arpVars, workerVars, actx, sendVars, out>>
    /\ UNCHANGED payloadVars

\* A teardown that sends Shutdown first and never bumps the barrier.
drop_shutdown_first(i) ==
    /\ apc \in {"idle", "drop"}
    /\ dpc[i] \in {"live", "bumped"}
    /\ queue' = [queue EXCEPT ![i] = IF QueueOpen(i) THEN Append(@, Shutdown) ELSE @]
    /\ dpc' = [dpc EXCEPT ![i] = "shutdown"]
    /\ apc' = "drop"
    /\ UNCHANGED <<stackVars, barrierVars, arpVars, wpc, wmsg, wtx, actx, sendVars, out>>
    /\ UNCHANGED payloadVars

\* A ThreadHandle drop that joins without sending Shutdown.
drop_shutdown_unsent(i) ==
    /\ dpc[i] = "bumped"
    /\ dpc' = [dpc EXCEPT ![i] = "shutdown"]
    /\ UNCHANGED <<stackVars, barrierVars, arpVars, workerVars, apiVars, sendVars, out>>
    /\ UNCHANGED payloadVars

\* self.tx.send(StackInterfaceMsg::Shutdown) (line 83).
drop_shutdown(i) ==
    /\ dpc[i] = "bumped"
    /\ queue' = [queue EXCEPT ![i] = IF QueueOpen(i) THEN Append(@, Shutdown) ELSE @]
    /\ dpc' = [dpc EXCEPT ![i] = "shutdown"]
    /\ UNCHANGED <<stackVars, barrierVars, arpVars, wpc, wmsg, wtx, apiVars, sendVars, out>>
    /\ UNCHANGED payloadVars

\* self.handle.take().unwrap().join().unwrap() (line 86).
drop_join(i) ==
    /\ dpc[i] = "shutdown"
    /\ wpc[i] = "done"
    /\ dpc' = [dpc EXCEPT ![i] = "joined"]
    /\ apc' = "idle"
    /\ UNCHANGED <<stackVars, barrierVars, arpVars, workerVars, actx, sendVars, out>>
    /\ UNCHANGED payloadVars

(***************************************************************************)
(* Sends through the handles the application holds.                        *)
(***************************************************************************)
\* The frame a send through handle h puts on the wire.
Ipv4Frame(h) ==
    Frame("ipv4", OwnMac(h.iface), h.dst_mac, [src |-> h.src], [dst |-> h.dst])

\* The calls of send the application makes: (num_packets, packet_size).
Call(num_packets, packet_size) ==
    [num_packets |-> num_packets, packet_size |-> packet_size]
SpecCall == Call(1, 34)
SendCalls == {Call(1, 34), Call(2, 34), Call(0, 14)}

\* The send in flight through handle h: the handle and the arguments.
InFlight(h, num_packets, packet_size) ==
    [f \in DOMAIN h \cup {"num_packets", "packet_size"} |->
        IF f = "num_packets" THEN num_packets
        ELSE IF f = "packet_size" THEN packet_size ELSE h[f]]
SendingHandle == [f \in DOMAIN sending \ {"num_packets", "packet_size"} |-> sending[f]]

\* TxImpl::send (500-509), lines 502-504: lock, compare; a stale handle
\* returns InvalidTx, a current one goes on to the datalink with the lock held.
TxImpl_send(h, num_packets, packet_size) ==
    /\ h \in handles
    /\ sending = Nil
    /\ Unlocked(h.iface)
    /\ IF Stale(h.iface, h.version)
       THEN /\ out' = Out("send", "InvalidTx", <<>>)
            /\ UNCHANGED <<mutex, sending>>
       ELSE /\ mutex' = [mutex EXCEPT ![h.iface] = "snd"]
            /\ sending' = InFlight(h, num_packets, packet_size)
            /\ out' = out
    /\ UNCHANGED <<stackVars, version, arpVars, workerVars, apiVars, handles, dpc>>
    /\ UNCHANGED payloadVars

\* TxBarrier::send (548-560) under the lock TxImpl::send took (line 506):
\* one build_and_send call with the arguments of the send (request), its
\* result through io_result_to_tx_result, and the release of the lock when
\* `tx` goes out of scope.
TxBarrier_send(res) ==
    /\ sending # Nil
    /\ mutex[sending.iface] = "snd"
    /\ out' = [op |-> "send", res |-> io_result_to_tx_result(res),
               frames |-> <<Ipv4Frame(sending)>>,
               request |-> Call(sending.num_packets, sending.packet_size)]
    /\ mutex' = [mutex EXCEPT ![sending.iface] = None]
    /\ sending' = Nil
    /\ UNCHANGED <<stackVars, version, arpVars, workerVars, apiVars, handles, dpc>>
    /\ UNCHANGED payloadVars

\* The application drops a sender it holds.
drop_handle(h) ==
    /\ h \in handles
    /\ sending = Nil \/ SendingHandle # h
    /\ handles' = handles \ {h}
    /\ UNCHANGED <<stackVars, barrierVars, arpVars, workerVars, apiVars, sending, dpc, out>>
    /\ UNCHANGED payloadVars

(***************************************************************************)
(* Spec: one interface, with the api thread, the senders, the worker and   *)
(* the receive thread running concurrently.                                *)
(***************************************************************************)
SpecIfaces == {"eth0"}
SpecNets == {[ip |-> 1, prefix |-> 1]}
SpecDsts == {2}
SpecMtus == {DEFAULT_MTU, 600}
RxReplies == {2} \X PeerMacs
RxRequests == {<<2, "00:11:22:33:44:55", 1>>}

Worker(i) ==
    \/ WorkerShutdown(i)
    \/ update_arp_insert(i)
    \/ update_arp_inc(i)
    \/ handle_arp_request(i)
    \/ arp_reply_tx(i)
    \/ \E res \in DatalinkResults : arp_reply_send(i, res)

Ipv4TxSteps ==
    \/ arp_request_tx
    \/ \E res \in DatalinkResults : arp_request_send(res)
    \/ ipv4_tx_recv
    \/ ipv4_tx_ethernet_tx

Drop(i) == drop_inc(i) \/ drop_shutdown(i) \/ drop_join(i)

Sender ==
    \/ \E h \in handles : TxImpl_send(h, SpecCall.num_packets, SpecCall.packet_size)
    \/ \E res \in DatalinkResults : TxBarrier_send(res)
    \/ \E h \in handles : drop_handle(h)

Next ==
    \/ \E i \in SpecIfaces : add_interface(i)
    \/ \E i \in SpecIfaces, net \in SpecNets : add_ipv4(i, net)
    \/ \E i \in SpecIfaces, m \in SpecMtus : set_mtu(i, m)
    \/ \E dst \in SpecDsts : ipv4_tx(dst)
    \/ Ipv4TxSteps
    \/ \E i \in SpecIfaces : Drop(i)
    \/ Sender
    \/ \E i \in SpecIfaces : Worker(i)
    \/ \E i \in SpecIfaces, m \in RxReplies : RxArpReply(i, m[1], m[2])
    \/ \E i \in SpecIfaces, m \in RxRequests : RxArpRequest(i, m[1], m[2], m[3])

Spec == Init /\ [][Next]_vars

(***************************************************************************)
(* SpecStack: the NetworkStack with two interfaces: interfaces, addresses  *)
(* and routes, ipv4_tx and the ARP updates it waits for, and the drop.     *)
(* ARP replies arrive on eth0 only.                                        *)
(***************************************************************************)
StackNets == {[ip |-> 1, prefix |-> 1], [ip |-> 1, prefix |-> 2], [ip |-> 3, prefix |-> 2]}
StackDsts == {2, 6}
StackRxIfaces == {"eth0"}
StackRxReplies == {<<2, "00:11:22:33:44:55">>}
StackRxRequests == {<<2, "00:11:22:33:44:55", 1>>}

WorkerStack(i) == WorkerShutdown(i) \/ update_arp_insert(i) \/ update_arp_inc(i)

NextStack ==
    \/ \E i \in Interfaces : add_interface(i)
    \/ \E i \in Interfaces, net \in StackNets : add_ipv4(i, net)
    \/ \E dst \in StackDsts : ipv4_tx(dst)
    \/ Ipv4TxSteps
    \/ \E i \in Interfaces : Drop(i)
    \/ \E h \in handles : drop_handle(h)
    \/ \E i \in Interfaces : WorkerStack(i)
    \/ \E i \in StackRxIfaces, m \in StackRxReplies : RxArpReply(i, m[1], m[2])

SpecStack == Init /\ [][NextStack]_vars

(***************************************************************************)
(* SpecAddr: the configuration calls of the NetworkStack on two            *)
(* interfaces: add_interface, add_ipv4, udp_listen and icmp_listen, in any *)
(* sequence.  No traffic: the workers stay at their empty queues.          *)
(***************************************************************************)
AddrNets == {[ip |-> 1, prefix |-> 1], [ip |-> 1, prefix |-> 2], [ip |-> 3, prefix |-> 2]}
AddrPorts == {0, 53}
AddrListenIps == {Unspecified, 1}

NextAddr ==
    \/ \E i \in Interfaces : add_interface(i)
    \/ \E i \in Interfaces, net \in AddrNets : add_ipv4(i, net)
    \/ \E a \in AddrListenIps, port \in AddrPorts : udp_listen_ipv4(a, port, "L1")
    \/ \E a \in AddrListenIps : icmp_listen(a, "EchoRequest", "L1")

SpecAddr == Init /\ [][NextAddr]_vars

(***************************************************************************)
(* SpecOps: one interface and every operation of the stack, the listener   *)
(* registrations included, with one peer and one MTU value.                *)
(***************************************************************************)
OpsNets == {[ip |-> 1, prefix |-> 1]}
OpsDsts == {2}
OpsMtus == {600}
OpsPorts == {53}
OpsListenIps == {1}
OpsRxReplies == {<<2, "00:11:22:33:44:55">>}
OpsRxRequests == {<<2, "00:11:22:33:44:55", 1>>}

NextOps ==
    \/ \E i \in SpecIfaces : add_interface(i)
    \/ \E i \in SpecIfaces, net \in OpsNets : add_ipv4(i, net)
    \/ \E i \in SpecIfaces, m \in OpsMtus : set_mtu(i, m)
    \/ \E a \in OpsListenIps, port \in OpsPorts : udp_listen_ipv4(a, port, "L1")
    \/ \E a \in OpsListenIps : icmp_listen(a, "EchoRequest", "L1")
    \/ \E dst \in OpsDsts : ipv4_tx(dst)
    \/ Ipv4TxSteps
    \/ \E i \in SpecIfaces : Drop(i)
    \/ Sender
    \/ \E i \in SpecIfaces : Worker(i)
    \/ \E i \in SpecIfaces, m \in OpsRxReplies : RxArpReply(i, m[1], m[2])
    \/ \E i \in SpecIfaces, m \in OpsRxRequests : RxArpRequest(i, m[1], m[2], m[3])

SpecOps == Init /\ [][NextOps]_vars

(***************************************************************************)
(* SpecS1: scenario S1.  One interface with one address, one lookup of a   *)
(* peer that has no ARP binding, and the peer's ARP reply injected while   *)
(* the caller is blocked on the waiter.  No MTU change, no drop, no other  *)
(* peer and no second MAC address: the only increment of the barrier is    *)
(* the worker's, for the injected reply.                                   *)
(***************************************************************************)
S1Net == [ip |-> 1, prefix |-> 1]
S1Dsts == {2}
S1Mac == "00:11:22:33:44:55"

InjectReply == apc = "wait" /\ \E a \in S1Dsts : RxArpReply("eth0", a, S1Mac)

NextS1 ==
    \/ add_interface("eth0")
    \/ add_ipv4("eth0", S1Net)
    \/ \E dst \in S1Dsts : ipv4_tx(dst)
    \/ Ipv4TxSteps
    \/ InjectReply
    \/ update_arp_insert("eth0")
    \/ update_arp_inc("eth0")
    \/ Sender

SpecS1 == Init /\ [][NextS1]_vars

(***************************************************************************)
(* SpecRoute: one interface with two networks, routes the application adds *)
(* itself (on-link and through a gateway), ipv4_tx to destinations inside  *)
(* and outside the local networks, the ARP replies of one peer, and sends  *)
(* through the senders obtained.                                           *)
(***************************************************************************)
RouteNets == {[ip |-> 1, prefix |-> 2], [ip |-> 3, prefix |-> 2]}
RouteDsts == {2, 6}
RouteExtra == {<<[ip |-> 4, prefix |-> 1], <<2>>>>, <<[ip |-> 4, prefix |-> 1], <<>>>>}
RouteRxReplies == {<<2, "00:11:22:33:44:55">>}

NextRoute ==
    \/ add_interface("eth0")
    \/ \E net \in RouteNets : add_ipv4("eth0", net)
    \/ \E r \in RouteExtra : routing_table_add_route(r[1], r[2], "eth0")
    \/ \E dst \in RouteDsts : ipv4_tx(dst)
    \/ Ipv4TxSteps
    \/ Sender
    \/ update_arp_insert("eth0")
    \/ update_arp_inc("eth0")
    \/ \E m \in RouteRxReplies : RxArpReply("eth0", m[1], m[2])

SpecRoute == Init /\ [][NextRoute]_vars

(***************************************************************************)
(* SpecPorts: UDP listeners on two interfaces, one with two local IPs and   *)
(* one sharing the first of them, with port 0 and with an explicit port of *)
(* the ephemeral range.                                                    *)
(***************************************************************************)
Listeners == {"L1", "L2"}
PortsNets ==
    {<<"eth0", [ip |-> 1, prefix |-> 2]>>, <<"eth0", [ip |-> 3, prefix |-> 2]>>,
     <<"eth1", [ip |-> 1, prefix |-> 2]>>}
PortsPorts == {0, LOCAL_PORT_RANGE_START}
PortsListenIps == {Unspecified, 1, 3}

NextPorts ==
    \/ \E i \in Interfaces : add_interface(i)
    \/ \E n \in PortsNets : add_ipv4(n[1], n[2])
    \/ \E a \in PortsListenIps, port \in PortsPorts, l \in Listeners :
          udp_listen_ipv4(a, port, l)

SpecPorts == Init /\ [][NextPorts]_vars

(***************************************************************************)
(* SpecIcmp: ICMP listeners of both types on the interfaces and local IPs  *)
(* of SpecPorts.                                                           *)
(***************************************************************************)
IcmpCalls == {<<"EchoRequest", "L1">>, <<"EchoRequest", "L2">>, <<"EchoReply", "L1">>}

NextIcmp ==
    \/ \E i \in Interfaces : add_interface(i)
    \/ \E n \in PortsNets : add_ipv4(n[1], n[2])
    \/ \E a \in PortsListenIps, c \in IcmpCalls : icmp_listen(a, c[1], c[2])

SpecIcmp == Init /\ [][NextIcmp]_vars

(***************************************************************************)
(* SpecArp: ARP lookups of two destinations on one interface, with ARP     *)
(* replies for both from two peers.  A lookup whose ARP request fails      *)
(* leaves its waiter registered.                                           *)
(***************************************************************************)
ArpNets == {[ip |-> 1, prefix |-> 1]}
ArpDsts == {2, 3}
ArpRxReplies ==
    {<<2, "00:11:22:33:44:55">>, <<2, "00:11:22:33:44:66">>, <<3, "00:11:22:33:44:55">>}

NextArp ==
    \/ add_interface("eth0")
    \/ \E net \in ArpNets : add_ipv4("eth0", net)
    \/ \E dst \in ArpDsts : ipv4_tx(dst)
    \/ Ipv4TxSteps
    \/ update_arp_insert("eth0")
    \/ update_arp_inc("eth0")
    \/ \E m \in ArpRxReplies : RxArpReply("eth0", m[1], m[2])

SpecArp == Init /\ [][NextArp]_vars

(***************************************************************************)
(* BasicEthernetPayload (src/ethernet/ethernet_tx.rs): a payload built     *)
(* from a vector, handed out in chunks by successive build calls.          *)
(* SpecPayload draws the vector from the payloads of up to MaxLen bytes    *)
(* and the buffers of the calls from those of up to MaxBuf bytes.          *)
(***************************************************************************)
PayloadBytes == {5, 6}
FillBytes == {0, 99}
Payloads == UNION {[1..n -> PayloadBytes] : n \in 0..MaxLen}
Buffers == UNION {[1..n -> {f}] : n \in 0..MaxBuf, f \in FillBytes}

\* cmp::min (47).
min(a, b) == IF a <= b THEN a ELSE b

\* Payload::len (41-43).
len == Len(payload)

\* Payload::build (45-50) as a function of the offset and the buffer:
\* buffer[0..end - start] takes payload[start..end], the rest of the buffer
\* stays as the caller handed it in; the offset and the buffer after the call.
BasicEthernetPayload_build(off, buf) ==
    LET end == min(off + Len(buf), Len(payload)) IN
    [offset |-> end,
     buffer |-> [k \in 1..Len(buf) |->
                   IF k <= end - off THEN payload[off + k] ELSE buf[k]]]

\* A build that copies from the start of the payload on every call.
build_from_start(buf) ==
    LET end == min(Len(buf), Len(payload)) IN
    /\ offset' = end
    /\ buffer' = [k \in 1..Len(buf) |-> IF k <= end THEN payload[k] ELSE buf[k]]
    /\ written' = written \o SubSeq(buffer', 1, end)
    /\ UNCHANGED <<payload, ether_type, ethernet_tx, stackVars, barrierVars, arpVars,
                   workerVars, apiVars, sendVars, dpc, out>>

\* A build call on the payload: the fields and the caller's buffer after it.
build(buf) ==
    LET b == BasicEthernetPayload_build(offset, buf) IN
    /\ offset' = b.offset
    /\ buffer' = b.buffer
    /\ written' = written \o SubSeq(buffer', 1, b.offset - offset)
    /\ UNCHANGED <<payload, ether_type, ethernet_tx, stackVars, barrierVars, arpVars,
                   workerVars, apiVars, sendVars, dpc, out>>

\* BasicEthernetPayload::new (25-31) with a vector of the bounded set.
InitPayload ==
    /\ InitStack
    /\ payload \in Payloads
    /\ offset = 0
    /\ buffer = <<>>
    /\ written = <<>>
    /\ ether_type = "Arp"
    /\ ethernet_tx = Nil

NextPayload == \E buf \in Buffers : build(buf)

SpecPayload == InitPayload /\ [][NextPayload]_vars

(***************************************************************************)
(* EthernetTxImpl and EthernetBuilder (src/ethernet/ethernet_tx.rs) over a *)
(* Tx that, like TxBarrier::send with the datalink's build_and_send, hands *)
(* the builder one buffer of packet_size bytes per packet.  Frames are     *)
(* byte sequences: destination, source, EtherType, payload region.         *)
(***************************************************************************)
minimum_packet_size == 14
EtherTypes == {"Arp", "Ipv4"}
EthernetTxs ==
    {[src |-> "00:11:22:33:44:55", dst |-> BroadcastMac],
     [src |-> "00:11:22:33:44:66", dst |-> "00:11:22:33:44:55"]}

\* The six bytes of a MAC address and the two of an EtherType.
MacBytes(mac) ==
    CASE mac = "00:11:22:33:44:55" -> <<0, 17, 34, 51, 68, 85>>
      [] mac = "00:11:22:33:44:66" -> <<0, 17, 34, 51, 68, 102>>
      [] OTHER -> <<255, 255, 255, 255, 255, 255>>
EtherTypeBytes(t) == IF t = "Arp" THEN <<8, 6>> ELSE <<8, 0>>

\* EthernetBuilder::len (179-181).
EthernetBuilder_len == minimum_packet_size + len

\* EthernetBuilder::build (184-190) on a buffer, with the payload at offset
\* off: header fields set, pkg.payload_mut() handed to the payload.
EthernetBuilder_build(off, buf) ==
    LET p == BasicEthernetPayload_build(
                 off, SubSeq(buf, minimum_packet_size + 1, Len(buf)))
    IN [offset |-> p.offset,
        buffer |-> MacBytes(ethernet_tx.dst) \o MacBytes(ethernet_tx.src)
                     \o EtherTypeBytes(ether_type) \o p.buffer]

\* The Tx under the EthernetTxImpl: num_packets buffers of packet_size
\* bytes, each holding fill, built one after the other by the builder
\* (TxBarrier::send, stack.rs 548-560).  The frames built and the offset
\* the payload ends at.
RECURSIVE Tx_send(_, _, _, _)
Tx_send(num_packets, packet_size, fill, off) ==
    IF num_packets = 0
    THEN [frames |-> <<>>, offset |-> off]
    ELSE LET b == EthernetBuilder_build(off, [k \in 1..packet_size |-> fill])
             rest == Tx_send(num_packets - 1, packet_size, fill, b.offset)
         IN [frames |-> <<b.buffer>> \o rest.frames, offset |-> rest.offset]

\* A send that sizes the frames by the payload's length.
total_size_of_payload(size) == len + minimum_packet_size

\* EthernetTxImpl::send, line 155.
total_size(size) == size + minimum_packet_size

\* EthernetTxImpl::send (151-157).  The outcome records the arguments of the
\* call, what the Tx was asked for (request) and the frames built.
EthernetTxImpl_send(packets, size, fill, res) ==
    LET r == Tx_send(packets, total_size(size), fill, offset) IN
    /\ ethernet_tx # Nil
    /\ out' = [op |-> "ethernet_send", res |-> res, frames |-> r.frames,
               args |-> [packets |-> packets, size |-> size, fill |-> fill],
               request |-> [num_packets |-> packets,
                            packet_size |-> total_size(size)]]
    /\ offset' = r.offset
    /\ written' = written \o SubSeq(payload, offset + 1, r.offset)
    /\ buffer' = IF packets = 0 THEN buffer ELSE r.frames[packets]
    /\ UNCHANGED <<payload, ether_type, ethernet_tx, stackVars, barrierVars, arpVars,
                   workerVars, apiVars, sendVars, dpc>>

\* EthernetTxImpl::new (125-131) and BasicEthernetPayload::new (25-31).
InitEthernet ==
    /\ InitStack
    /\ payload \in Payloads
    /\ offset = 0
    /\ buffer = <<>>
    /\ written = <<>>
    /\ ether_type \in EtherTypes
    /\ ethernet_tx \in EthernetTxs

NextEthernet ==
    \E packets \in 0..MaxPackets, size \in 0..MaxSize, fill \in FillBytes,
       res \in DatalinkResults : EthernetTxImpl_send(packets, size, fill, res)

SpecEthernet == InitEthernet /\ [][NextEthernet]_vars

(***************************************************************************)
(* SpecSend: Spec with the application choosing the arguments of its       *)
(* sends among SendCalls, one MTU to set and no ARP request received.      *)
(***************************************************************************)
SenderCalls ==
    \/ \E h \in handles, c \in SendCalls :
          TxImpl_send(h, c.num_packets, c.packet_size)
    \/ \E res \in DatalinkResults : TxBarrier_send(res)
    \/ \E h \in handles : drop_handle(h)

SendMtus == {600}

\* The worker on a queue of UpdateArpTable and Shutdown messages.
WorkerUpdates(i) ==
    \/ WorkerShutdown(i)
    \/ update_arp_insert(i)
    \/ update_arp_inc(i)

NextSend ==
    \/ \E i \in SpecIfaces : add_interface(i)
    \/ \E i \in SpecIfaces, net \in SpecNets : add_ipv4(i, net)
    \/ \E i \in SpecIfaces, m \in SendMtus : set_mtu(i, m)
    \/ \E dst \in SpecDsts : ipv4_tx(dst)
    \/ Ipv4TxSteps
    \/ \E i \in SpecIfaces : Drop(i)
    \/ SenderCalls
    \/ \E i \in SpecIfaces : WorkerUpdates(i)
    \/ \E i \in SpecIfaces, m \in RxReplies : RxArpReply(i, m[1], m[2])

SpecSend == Init /\ [][NextSend]_vars

(***************************************************************************)
(* SpecDrop: one interface with its worker, the receive thread, the        *)
(* application's lookups and sends, and the drop of the interface.  The    *)
(* worker thread and the dropping thread are scheduled, and a datalink     *)
(* send returns.  Increments stop being requested when the versions left   *)
(* below MaxVersion are spoken for.                                        *)
(***************************************************************************)
\* The increments the worker still owes for the messages it holds.
OwedIncs(i) ==
    Cardinality({k \in DOMAIN queue[i] : queue[i][k].type = "UpdateArpTable"})
      + (IF wpc[i] = "inc" THEN 1 ELSE 0)
Room(i) == version[i] + OwedIncs(i) < MaxVersion

NextDrop ==
    \/ \E i \in SpecIfaces : add_interface(i)
    \/ \E i \in SpecIfaces, net \in SpecNets : add_ipv4(i, net)
    \/ \E dst \in SpecDsts : ipv4_tx(dst)
    \/ Ipv4TxSteps
    \/ \E i \in SpecIfaces : Room(i) /\ drop_inc(i)
    \/ \E i \in SpecIfaces : drop_shutdown(i)
    \/ \E i \in SpecIfaces : drop_join(i)
    \/ Sender
    \/ \E i \in SpecIfaces : Worker(i)
    \/ \E i \in SpecIfaces, m \in RxReplies : Room(i) /\ RxArpReply(i, m[1], m[2])
    \/ \E i \in SpecIfaces, m \in RxRequests :
          Room(i) /\ RxArpRequest(i, m[1], m[2], m[3])

\* The worker runs (thread::spawn, line 99), the thread that drops the
\* interface goes on through ThreadHandle's drop (81-88), and the datalink
\* call of a send in flight returns.
FairDrop ==
    \A i \in SpecIfaces :
        /\ WF_vars(Worker(i))
        /\ WF_vars(drop_shutdown(i) \/ drop_join(i))
        /\ WF_vars(\E res \in DatalinkResults : TxBarrier_send(res))

SpecDrop == Init /\ [][NextDrop]_vars /\ FairDrop

(***************************************************************************)
(* Properties.                                                             *)
(***************************************************************************)
\* A send step through handle h that finds the barrier at another version:
\* it returns InvalidTx, hands nothing to the datalink layer and leaves the
\* barrier as it was.
StaleSendStep ==
    \A h \in handles :
        (TxImpl_send(h, SpecCall.num_packets, SpecCall.packet_size) /\ h.version # version[h.iface]) =>
            /\ out' = Out("send", "InvalidTx", <<>>)
            /\ sending' = Nil
            /\ version' = version
            /\ mutex' = mutex

\* C1: a send through a TxImpl whose version differs from the barrier's
\* version returns InvalidTx, passes nothing to the datalink layer and leaves
\* the version unchanged; and since the comparison and the datalink send
\* happen under one hold of the mutex, a send that is on its way to the
\* datalink layer holds the mutex and still carries the barrier's version.
C1_StaleSendInvalidTx ==
    /\ [](sending # Nil =>
            /\ mutex[sending.iface] = "snd"
            /\ sending.version = version[sending.iface])
    /\ [][StaleSendStep]_vars

\* A stale handle was used and the send returned InvalidTx.
C1_Witness ==
    /\ out = Out("send", "InvalidTx", <<>>)
    /\ \E h \in handles : h.version # version[h.iface]

\* C2: in scenario S1 the call blocked on the ARP waiter completes once the
\* worker has processed the reply, and a send on the returned sender puts a
\* frame on the wire: no send fails with InvalidTx, whatever the interleaving
\* of the application thread and the worker.
C2_S1SendNotInvalid == out.op = "send" => out.res # "InvalidTx"

\* The worker of interface i takes an UpdateArpTable message off its queue.
TakesUpdate(i) ==
    /\ wpc[i] = "recv"
    /\ queue[i] # <<>>
    /\ Head(queue[i]).type = "UpdateArpTable"
    /\ queue'[i] = Tail(queue[i])

\* The steps of update_arp on interface i.
UpdateArpStep(i) ==
    /\ TakesUpdate(i) =>
          /\ version' = version
          /\ arp_table'[i][Head(queue[i]).ip] = Head(queue[i]).mac
          /\ IF arp_table[i][Head(queue[i]).ip] # Head(queue[i]).mac
             THEN wpc'[i] = "inc"
             ELSE /\ wpc'[i] = "recv"
                  /\ handles' = handles
    /\ (wpc[i] = "recv" /\ wpc'[i] = "inc") => TakesUpdate(i)
    /\ (wpc[i] = "inc" /\ wpc'[i] # "inc") =>
          /\ wpc'[i] = "recv"
          /\ version' = [version EXCEPT ![i] = version[i] + 1]
    /\ (wpc[i] = "inc" /\ wpc'[i] = "inc") => Len(queue'[i]) >= Len(queue[i])

\* C3: when the worker processes UpdateArpTable(ip, mac) and the binding
\* changes (a new entry or another MAC), the worker goes on to increment the
\* barrier, and its increment makes the version the previous version plus
\* one; when the binding does not change, the worker is done with the
\* message, the version is as it was and the handles created earlier are
\* untouched.  The worker takes its next message only after the increment.
C3_UpdateArpBumpsIffChanged == [][\A i \in Interfaces : UpdateArpStep(i)]_vars

\* A handle that only a worker's ARP update has invalidated: no set_mtu since
\* it was created, the interface is not being dropped, the worker is back at
\* its queue.
C3_Witness ==
    \E h \in handles :
        /\ ~h.preMtu
        /\ dpc[h.iface] = "live"
        /\ wpc[h.iface] = "recv"
        /\ version[h.iface] = h.version + 1

\* The handles created before the latest set_mtu of their interface are
\* stale; the others carry the MTU the interface has now.
MtuHandles ==
    \A h \in handles :
        /\ h.preMtu => h.version # version[h.iface]
        /\ ~h.preMtu => h.mtu = get_mtu(h.iface)

\* set_mtu(i, m) leaves the interface with MTU m and with no current handle;
\* a send through a handle older than a set_mtu returns InvalidTx and puts
\* nothing on the wire.
MtuStep ==
    /\ \A i \in Interfaces, m \in SpecMtus :
          set_mtu(i, m) =>
              /\ mtu'[i] = m
              /\ version'[i] = version[i] + 1
              /\ \A h \in handles' : h.iface = i => h.preMtu /\ h.version # version'[i]
    /\ \A h \in handles :
          (TxImpl_send(h, SpecCall.num_packets, SpecCall.packet_size) /\ h.preMtu) =>
              /\ out' = Out("send", "InvalidTx", <<>>)
              /\ sending' = Nil

\* C4: after set_mtu(m) on an interface, every handle of that interface
\* created before the call fails its next send and all later sends with
\* InvalidTx, get_mtu returns m, and a sender obtained afterwards from
\* ipv4_tx carries MTU m; also when m is the MTU the interface already had.
C4_SetMtuInvalidates == []MtuHandles /\ [][MtuStep]_vars

\* set_mtu was called with the MTU the interface already had, and a send
\* through a handle created before the call has failed with InvalidTx.
C4_Witness ==
    /\ out = Out("send", "InvalidTx", <<>>)
    /\ \E h \in handles :
          /\ h.preMtu
          /\ h.mtu = get_mtu(h.iface)
          /\ h.mtu = DEFAULT_MTU
          /\ version[h.iface] = h.version + 1

\* Shutdown is in the queue of interface i.
ShutdownQueued(i) == \E k \in DOMAIN queue[i] : queue[i][k] = Shutdown

\* C5 as stated: Shutdown is sent and the worker is joined before the
\* barrier is bumped, so once the drop has bumped the barrier the worker has
\* stopped and neither creates nor uses a TxHandle.
C5_JoinBeforeBump ==
    \A i \in Interfaces : dpc[i] \in {"bumped", "shutdown", "joined"} => wpc[i] = "done"

\* Where the worker is while its interface is dropped.
DropOrder ==
    \A i \in Interfaces :
        /\ dpc[i] \in {"none", "live", "bumped"} => wpc[i] # "done" /\ ~ShutdownQueued(i)
        /\ dpc[i] = "joined" => wpc[i] = "done" /\ version[i] > 0

\* The steps of the drop of interface i, in their order.
DropStep(i) ==
    /\ dpc'[i] # dpc[i] =>
          \/ dpc[i] = "none" /\ dpc'[i] = "live" /\ version' = version
          \/ /\ dpc[i] = "live" /\ dpc'[i] = "bumped"
             /\ version' = [version EXCEPT ![i] = version[i] + 1]
             /\ queue' = queue
          \/ /\ dpc[i] = "bumped" /\ dpc'[i] = "shutdown"
             /\ version' = version
             /\ queue'[i] = Append(queue[i], Shutdown)
          \/ /\ dpc[i] = "shutdown" /\ dpc'[i] = "joined"
             /\ version' = version
             /\ wpc[i] = "done"
    /\ wpc[i] = "done" => wpc'[i] = "done" /\ wtx'[i] = wtx[i]

\* C5 amended: the drop of a StackInterface first bumps the barrier, then
\* sends Shutdown to the worker, then joins it.  The worker is running when
\* the barrier is bumped and stops only when it takes Shutdown off its queue;
\* after the join it creates and uses no TxHandle.
C5_BumpShutdownJoin == []DropOrder /\ [][\A i \in Interfaces : DropStep(i)]_vars

\* After the drop-time bump the worker holds a TxHandle with the bumped
\* version, created for an ARP reply, and is about to send through it.
C5_Witness ==
    \E i \in Interfaces :
        /\ dpc[i] \in {"bumped", "shutdown"}
        /\ wpc[i] = "reply_send"
        /\ wtx[i] = version[i]

\* The drop of interface i has bumped the barrier.
Bumped(i) == dpc[i] \in {"bumped", "shutdown", "joined"}

\* The handles of a dropped interface are older than its barrier, and no
\* send through one of them is on its way to the datalink layer.
DroppedHandlesStale ==
    /\ \A h \in handles : Bumped(h.iface) => h.version < version[h.iface]
    /\ sending # Nil => ~Bumped(sending.iface)

\* A send through a handle of a dropped interface returns InvalidTx and puts
\* nothing on the wire.
DroppedSendStep ==
    \A h \in handles :
        (TxImpl_send(h, SpecCall.num_packets, SpecCall.packet_size) /\ Bumped(h.iface)) =>
            /\ out' = Out("send", "InvalidTx", <<>>)
            /\ sending' = Nil

\* C7: once the drop of a StackInterface has bumped the barrier, every
\* handle the application obtained from that interface before the drop fails
\* every later send with InvalidTx, also when the worker applies further
\* queued ARP updates, and increments the barrier again, before it stops.
C7_DropInvalidatesHandles == []DroppedHandlesStale /\ [][DroppedSendStep]_vars

\* The drop's bump is all that separates a handle from the barrier, the
\* worker is about to increment the barrier for a queued ARP update, and a
\* send through the handle has failed with InvalidTx.
C7_Witness ==
    /\ out = Out("send", "InvalidTx", <<>>)
    /\ \E h \in handles :
          /\ Bumped(h.iface)
          /\ ~h.preMtu
          /\ version[h.iface] = h.version + 1
          /\ wpc[h.iface] = "inc"

\* The three events that increment the barrier of interface i.
IncEvent(i) ==
    \/ update_arp_inc(i)
    \/ \E m \in OpsMtus : set_mtu(i, m)
    \/ drop_inc(i)

\* The operations that leave every barrier as it is.
OtherOp ==
    \/ \E i \in Interfaces : add_interface(i)
    \/ \E i \in Interfaces, net \in OpsNets : add_ipv4(i, net)
    \/ \E a \in OpsListenIps, port \in OpsPorts : udp_listen_ipv4(a, port, "L1")
    \/ \E a \in OpsListenIps : icmp_listen(a, "EchoRequest", "L1")
    \/ \E dst \in OpsDsts : ipv4_tx(dst)
    \/ Ipv4TxSteps
    \/ \E i \in Interfaces : handle_arp_request(i) \/ arp_reply_tx(i)
                             \/ \E res \in DatalinkResults : arp_reply_send(i, res)
    \/ \E i \in Interfaces : update_arp_insert(i)
    \/ Sender

\* A step changes the version of interface i only by adding one, and only in
\* one of the three events; the other operations change no version.
VersionStep ==
    /\ \A i \in Interfaces :
          /\ version'[i] >= version[i]
          /\ version'[i] # version[i] => version'[i] = version[i] + 1 /\ IncEvent(i)
          /\ IncEvent(i) => version'[i] = version[i] + 1
    /\ OtherOp => version' = version

\* C6: the barrier version of an interface starts at 0, never decreases and
\* changes only by +1, on exactly three events: a worker ARP update that
\* changed a binding, set_mtu and the drop of the StackInterface.  add_ipv4,
\* udp_listen, icmp_listen, the creation of a handle, the handling of an ARP
\* request and sends, failed or not, leave it unchanged.
C6_VersionMonotonic == (\A i \in Interfaces : version[i] = 0) /\ [][VersionStep]_vars

\* All three events have happened once on an interface that also has an
\* address, a UDP and an ICMP listener, and on which a send has failed.
C6_Witness ==
    \E i \in Interfaces :
        /\ version[i] = 3
        /\ dpc[i] = "joined"
        /\ \E ip \in OpsDsts : arp_table[i][ip] # NoMac
        /\ mtu[i] # DEFAULT_MTU
        /\ \E ip \in DOMAIN ipv4_datas[i] :
              /\ ipv4_datas[i][ip].udp_listeners # EmptyMap
              /\ ipv4_datas[i][ip].icmp_listeners["EchoRequest"] # <<>>
        /\ out.op = "send"

\* C8: after any sequence of add_ipv4 calls, successful or failing, the set
\* of local IPs the worker sees (ipv4_addresses) is the key set of the
\* interface's Ipv4Data map.
C8_AddressesAreDataKeys ==
    \A i \in Interfaces : ipv4_addresses[i] = DOMAIN ipv4_datas[i]

\* An interface has two addresses, the other has one, and the last add_ipv4
\* failed.
C8_Witness ==
    /\ out = Out("add_ipv4", "IllegalArgument", <<>>)
    /\ \E i, j \in Interfaces :
          /\ Cardinality(ipv4_addresses[i]) = 2
          /\ Cardinality(ipv4_addresses[j]) = 1

\* add_ipv4(i, net) on an interface that has net's IP fails and changes
\* nothing; on an interface that does not have it, it succeeds and binds it,
\* whatever the other interfaces hold.
AddIpv4Step ==
    \A i \in Interfaces, net \in AddrNets :
        (add_ipv4(i, net) /\ i \in interfaces) =>
            IF net.ip \in DOMAIN ipv4_datas[i]
            THEN /\ out' = Out("add_ipv4", "IllegalArgument", <<>>)
                 /\ ipv4_datas' = ipv4_datas
                 /\ ipv4_addresses' = ipv4_addresses
                 /\ ipv4_listeners' = ipv4_listeners
                 /\ routing_table' = routing_table
            ELSE /\ out' = Out("add_ipv4", "Ok", <<>>)
                 /\ ipv4_datas'[i][net.ip].net = net
                 /\ Route(net, <<>>, i) \in routing_table'

\* C9: add_ipv4 with an IP address already bound on that interface,
\* whatever the prefix lengths, returns IllegalArgument and changes nothing:
\* the Ipv4Data with its listeners, the local-IP set, the receive dispatch
\* map and the routing table are as before, no route is added; the same IP
\* can still be bound on another interface.
C9_DuplicateAddIpv4 == [][AddIpv4Step]_vars

\* The same IP is bound on both interfaces, with different prefix lengths
\* and with a UDP and an ICMP listener, and an add_ipv4 of that IP has failed.
C9_Witness ==
    /\ out = Out("add_ipv4", "IllegalArgument", <<>>)
    /\ \A i \in Interfaces :
          /\ 1 \in DOMAIN ipv4_datas[i]
          /\ ipv4_datas[i][1].icmp_listeners["EchoRequest"] # <<>>
    /\ ipv4_datas["eth0"][1].net.prefix # ipv4_datas["eth1"][1].net.prefix
    /\ \E i \in Interfaces : ipv4_datas[i][1].udp_listeners # EmptyMap

\* The routing table has no route for dst.
NoRouteFor(dst) == \A r \in routing_table : ~Contains(r.net, dst)

\* ipv4_tx(dst) without a route for dst returns NoRouteToHost at once: no
\* frame, no waiter, no message to the worker, every ARP table and every
\* barrier as before.
NoRouteStep ==
    \A dst \in StackDsts :
        (ipv4_tx(dst) /\ NoRouteFor(dst)) =>
            /\ out' = Out("ipv4_tx", "NoRouteToHost", <<>>)
            /\ apc' = "idle"
            /\ UNCHANGED <<arp_table, arp_waiters, chan, queue, version, handles>>

\* C10: NetworkStack.ipv4_tx(dst) returns NoRouteToHost when the routing
\* table has no route for dst, without sending an ARP request, without
\* blocking and without changing an ARP table or a barrier version.
C10_NoRouteToHost == [][NoRouteStep]_vars

\* Both interfaces have addresses and routes, and ipv4_tx to a destination
\* outside their networks has returned NoRouteToHost.
C10_Witness ==
    /\ out = Out("ipv4_tx", "NoRouteToHost", <<>>)
    /\ \A i \in Interfaces : \E r \in routing_table : r.iface = i
    /\ apc = "idle"

(***************************************************************************)
(* C11: the source address ipv4_tx chooses.                                *)
(***************************************************************************)
NextHop(r, dst) == IF r.gw = <<>> THEN dst ELSE r.gw[1]

\* The local IPs of interface i whose network contains address a.
LocalIpsFor(i, a) ==
    {ip \in ipv4_addresses[i] : Contains(ipv4_datas[i][ip].net, a)}

Routed(dst) ==
    /\ route(dst) # {}
    /\ \A r \in route(dst) : r.iface \in interfaces /\ ipv4_addresses[r.iface] # {}

\* C11 as stated: on an interface with at least one local IP, ipv4_tx to a
\* routed destination goes on with a local IP as source (one whose network
\* contains the destination if there is one, otherwise any local IP), and
\* does not end in an error.
C11_FallbackSource ==
    [][\A dst \in IPs :
         (ipv4_tx(dst) /\ Routed(dst)) =>
            /\ apc' \in {"eth_tx", "arp_tx"}
            /\ actx'.src \in ipv4_addresses[actx'.iface]
            /\ (LocalIpsFor(actx'.iface, dst) # {}
                  => actx'.src \in LocalIpsFor(actx'.iface, dst))]_vars

SourceStep ==
    \A dst \in IPs :
      (ipv4_tx(dst) /\ Routed(dst)) =>
         \E r \in route(dst) :
            IF LocalIpsFor(r.iface, NextHop(r, dst)) = {}
            THEN /\ apc' = "idle"
                 /\ out' = Out("ipv4_tx", "IllegalArgument", <<>>)
                 /\ UNCHANGED <<arp_waiters, chan, handles>>
            ELSE /\ apc' \in {"eth_tx", "arp_tx"}
                 /\ actx'.iface = r.iface
                 /\ actx'.src \in LocalIpsFor(r.iface, NextHop(r, dst))

SenderSourceStep ==
    ipv4_tx_ethernet_tx =>
        \A h \in handles' \ handles : h.src = actx.src /\ h.iface = actx.iface

\* C11 (amended): on an interface with at least one local IP, ipv4_tx chooses
\* as source a local IP whose network contains the next hop (the gateway of
\* the route if it has one, otherwise the destination), and the sender it
\* returns carries that source; when no local network contains the next hop
\* it returns IllegalArgument without registering an ARP waiter or creating a
\* sender: there is no fallback to the first local IP.
C11_SourceContainsNextHop == [][SourceStep /\ SenderSourceStep]_vars

\* ipv4_tx has just failed with IllegalArgument on an interface that has a
\* local IP, and earlier calls have produced senders through a gateway.
C11_Witness ==
    /\ out = Out("ipv4_tx", "IllegalArgument", <<>>)
    /\ \E i \in interfaces : ipv4_addresses[i] # {}
    /\ apc = "idle"

(***************************************************************************)
(* C12: the port udp_listen picks for port 0.                              *)
(***************************************************************************)
\* A udp_listen call with port 0 has just registered a listener.
RandomListen ==
    /\ \E a \in PortsListenIps, l \in Listeners : udp_listen_ipv4(a, 0, l)
    /\ out'.res = "Ok"

\* The interfaces whose listener maps the step changed.
Registered == {i \in Interfaces : ipv4_datas'[i] # ipv4_datas[i]}

HeldOn(i, ip, port) == port \in DOMAIN ipv4_datas[i][ip].udp_listeners

\* C12 as stated: the port returned for port 0 lies in [32768, 61000) and,
\* immediately before the call, no listener on that interface, on any of its
\* local IPs, held it.
C12_RandomPortFreeOnInterface ==
    [][RandomListen =>
         /\ out'.addr[2] >= LOCAL_PORT_RANGE_START
         /\ out'.addr[2] < LOCAL_PORT_RANGE_END
         /\ \A i \in Registered : \A ip \in DOMAIN ipv4_datas[i] :
               ~HeldOn(i, ip, out'.addr[2])]_vars

\* C12 (amended): the port returned for port 0 lies in [32768, 61000) and,
\* immediately before the call, no listener on the local IP of the interface
\* the listener was registered on held it; the same port may be held on
\* another local IP of that interface.
C12_RandomPortFreeOnAddress ==
    [][RandomListen =>
         /\ out'.addr[2] >= LOCAL_PORT_RANGE_START
         /\ out'.addr[2] < LOCAL_PORT_RANGE_END
         /\ Cardinality(Registered) = 1
         /\ \A i \in Registered :
               /\ out'.addr[1] \in DOMAIN ipv4_datas[i]
               /\ ~HeldOn(i, out'.addr[1], out'.addr[2])
               /\ out'.addr[2] \in
                    DOMAIN ipv4_datas'[i][out'.addr[1]].udp_listeners]_vars

\* A port-0 call has returned the last port of the range on one local IP
\* while another local IP of the same interface holds that port.
C12_Witness ==
    /\ out.op = "udp_listen" /\ out.res = "Ok"
    /\ out.addr[2] = LOCAL_PORT_RANGE_END - 1
    /\ \E i \in interfaces : \E ip \in DOMAIN ipv4_datas[i] :
          /\ ip # out.addr[1]
          /\ out.addr[1] \in DOMAIN ipv4_datas[i]
          /\ HeldOn(i, ip, out.addr[2])
          /\ HeldOn(i, out.addr[1], out.addr[2])

(***************************************************************************)
(* C13: failures of udp_listen.                                            *)
(***************************************************************************)
\* Every listener registered before the step is still there, unchanged.
ListenersKept ==
    \A i \in Interfaces : \A ip \in DOMAIN ipv4_datas[i] :
        /\ ip \in DOMAIN ipv4_datas'[i]
        /\ \A p \in DOMAIN ipv4_datas[i][ip].udp_listeners :
              /\ p \in DOMAIN ipv4_datas'[i][ip].udp_listeners
              /\ ipv4_datas'[i][ip].udp_listeners[p] =
                    ipv4_datas[i][ip].udp_listeners[p]

UdpListenStep ==
    \A a \in PortsListenIps, port \in PortsPorts, l \in Listeners :
      udp_listen_ipv4(a, port, l) =>
        /\ ListenersKept
        /\ a = Unspecified => out'.res = "AddrNotAvailable"
        /\ (port # 0 /\ Owners(a) # {} /\ \A i \in Owners(a) : HeldOn(i, a, port))
              => out'.res = "AddrInUse"
        /\ out'.res = "AddrInUse" =>
              a # Unspecified /\ \E i \in Owners(a) : HeldOn(i, a, port)
        /\ out'.res # "Ok" => ipv4_datas' = ipv4_datas

\* C13: over any sequence of udp_listen calls, a udp_listen naming a port
\* already bound on that local IP returns AddrInUse and keeps the original
\* listener in place, a udp_listen on 0.0.0.0 returns AddrNotAvailable, and
\* neither failure changes any listener map; no call replaces a listener.
C13_UdpListenFailures == [][UdpListenStep]_vars

\* A udp_listen has just failed with AddrInUse on a port that a listener
\* holds.
C13_Witness ==
    /\ out = Out("udp_listen", "AddrInUse", <<>>)
    /\ \E i \in interfaces : \E ip \in DOMAIN ipv4_datas[i] :
          HeldOn(i, ip, LOCAL_PORT_RANGE_START)

(***************************************************************************)
(* C14: icmp_listen.                                                       *)
(***************************************************************************)
IcmpList(datas, i, ip, t) == datas[i][ip].icmp_listeners[t]

IcmpListenStep ==
    \A a \in PortsListenIps, c \in IcmpCalls :
      LET t == c[1]
          l == c[2]
      IN
      icmp_listen(a, t, l) =>
        IF a = Unspecified \/ \A i \in interfaces : a \notin DOMAIN ipv4_datas[i]
        THEN /\ out'.res = "InvalidInput"
             /\ ipv4_datas' = ipv4_datas
        ELSE /\ out'.res = "Ok"
             /\ \A i \in Interfaces :
                  /\ DOMAIN ipv4_datas'[i] = DOMAIN ipv4_datas[i]
                  /\ \A ip \in DOMAIN ipv4_datas[i] :
                       /\ ipv4_datas'[i][ip].udp_listeners =
                             ipv4_datas[i][ip].udp_listeners
                       /\ \A ty \in IcmpTypes :
                            IcmpList(ipv4_datas', i, ip, ty) =
                               IF ip = a /\ ty = t
                               THEN Append(IcmpList(ipv4_datas, i, ip, ty), l)
                               ELSE IcmpList(ipv4_datas, i, ip, ty)

\* C14: icmp_listen(local_ip, type, listener) appends the listener to the end
\* of the per-type list of every interface that has local_ip bound, leaves
\* every other list as it is and returns Ok; it returns an error and
\* registers nothing when no interface has local_ip or local_ip is 0.0.0.0.
C14_IcmpListenAppends == [][IcmpListenStep]_vars

\* Two different listeners are registered, in that order, for Echo requests
\* on a local IP that both interfaces have.
C14_Witness ==
    /\ out = Out("icmp_listen", "Ok", <<>>)
    /\ \A i \in Interfaces :
          /\ 1 \in DOMAIN ipv4_datas[i]
          /\ IcmpList(ipv4_datas, i, 1, "EchoRequest") = <<"L1", "L2">>

(***************************************************************************)
(* C15: ARP waiters.                                                       *)
(***************************************************************************)
\* The waiter channels registered under ip on interface i.
WaitersOf(i, ip) == {arp_waiters[i][ip][k] : k \in DOMAIN arp_waiters[i][ip]}

Pending == UNION {WaitersOf(i, ip) : i \in Interfaces, ip \in IPs}

\* A pending waiter is registered once, under one IP, and has not been
\* notified; no channel ever holds more than one notification.
WaitersWellFormed ==
    /\ \A i \in Interfaces, ip \in IPs :
          /\ Cardinality(WaitersOf(i, ip)) = Len(arp_waiters[i][ip])
          /\ \A j \in Interfaces, jp \in IPs :
                <<i, ip>> # <<j, jp>> => WaitersOf(i, ip) \cap WaitersOf(j, jp) = {}
    /\ \A w \in Pending : w \in DOMAIN chan /\ chan[w] = <<>>
    /\ \A w \in DOMAIN chan : Len(chan[w]) <= 1

\* get registers only a fresh channel, and only under an IP without binding.
GetStep ==
    \A i \in Interfaces, ip \in IPs :
        \A w \in WaitersOf(i, ip)' \ WaitersOf(i, ip) :
            /\ w \notin DOMAIN chan
            /\ arp_table[i][ip] = NoMac
            /\ \E dst \in IPs : ipv4_tx(dst)

\* insert(ip, mac) notifies exactly the waiters of ip, each with mac, and
\* removes them; it touches no other waiter and no other channel.
InsertStep ==
    \A i \in Interfaces :
      TakesUpdate(i) =>
        LET m == Head(queue[i]) IN
        /\ \A w \in DOMAIN chan :
              chan'[w] = IF w \in WaitersOf(i, m.ip) THEN <<m.mac>> ELSE chan[w]
        /\ arp_waiters'[i][m.ip] = <<>>
        /\ \A j \in Interfaces, jp \in IPs :
              <<j, jp>> # <<i, m.ip>> => arp_waiters'[j][jp] = arp_waiters[j][jp]

\* Only insert notifies, and only insert removes a waiter.
OnlyInsertNotifies ==
    (\/ \E w \in DOMAIN chan : Len(chan'[w]) > Len(chan[w])
     \/ Pending \ Pending' # {})
       => \E i \in Interfaces : TakesUpdate(i)

\* C15: for any interleaving of ARP get and insert calls, every waiter
\* registered by get(ip) while ip is unknown receives exactly one
\* notification, carrying the MAC of the first later insert(ip, mac), and is
\* then removed; no waiter is notified twice, notified for another IP, or
\* left pending after an insert for its IP.
C15_WaitersNotifiedOnce ==
    []WaitersWellFormed /\ [][GetStep /\ InsertStep /\ OnlyInsertNotifies]_vars

\* Two waiters of different IPs have been registered; the insert for one IP
\* has notified its waiter with the MAC inserted and the other still waits.
C15_Witness ==
    /\ Len(chan) = 2
    /\ \E w \in DOMAIN chan : chan[w] = <<arp_table["eth0"][2]>>
    /\ WaitersOf("eth0", 2) = {}
    /\ WaitersOf("eth0", 3) # {}
    /\ arp_table["eth0"][3] = NoMac

(***************************************************************************)
(* C16: the worker's handling of ArpRequest.                               *)
(***************************************************************************)
TakesRequest(i) ==
    /\ wpc[i] = "recv"
    /\ queue[i] # <<>>
    /\ Head(queue[i]).type = "ArpRequest"
    /\ queue'[i] = Tail(queue[i])

\* The frame is the ARP reply of interface i to the request m.
IsReplyTo(f, i, m) ==
    /\ f.kind = "arp_reply"
    /\ f.a.sender_ip = m.target_ip
    /\ f.a.sender_mac = OwnMac(i)
    /\ f.b.target_mac = m.sender_mac
    /\ f.b.target_ip = m.sender_ip

ArpRequestStep(i) ==
    /\ TakesRequest(i) =>
          /\ arp_table' = arp_table /\ version' = version /\ out' = out
          /\ IF Head(queue[i]).target_ip \in ipv4_addresses[i]
             THEN wpc'[i] = "reply_tx" /\ wmsg'[i] = Head(queue[i])
             ELSE wpc'[i] = "recv"
    /\ (wpc[i] \in {"reply_tx", "reply_send"} /\ wpc'[i] # wpc[i]) =>
          /\ arp_table' = arp_table /\ version' = version
          /\ wpc[i] = "reply_send" /\ wpc'[i] = "reply_tx" => out' = out
          /\ wpc[i] = "reply_tx" => wpc'[i] = "reply_send" /\ out' = out
          /\ wpc'[i] \notin {"reply_tx", "reply_send"} =>
                /\ wpc'[i] = "recv"
                /\ out'.op = "arp_reply"
                /\ Len(out'.frames) = 1
                /\ IsReplyTo(out'.frames[1], i, wmsg[i])
    /\ (wpc'[i] = "reply_tx" /\ wpc[i] = "recv") =>
          TakesRequest(i) /\ Head(queue[i]).target_ip \in ipv4_addresses[i]

\* ARP replies go out only at the end of the handling of a request.
ReplyOnlyForRequest ==
    (out' # out /\ out'.op = "arp_reply") =>
        \E i \in Interfaces : wpc[i] = "reply_send" /\ wpc'[i] = "recv"

\* C16: when the worker processes ArpRequest(sender_ip, sender_mac,
\* target_ip) and target_ip is a local IP of the interface, it makes one
\* send of an ARP reply with sender IP target_ip, sender MAC the interface's
\* MAC and target (sender_mac, sender_ip); when target_ip is not local it
\* sends nothing; the ARP table and the barrier version are not changed by
\* the handling of this message.
C16_ArpRequestReply ==
    [][(\A i \in Interfaces : ArpRequestStep(i)) /\ ReplyOnlyForRequest]_vars

\* The worker has answered the request of 00:11:22:33:44:55 at IP 2 for the
\* local IP 1 and is back at its queue.
C16_Witness ==
    /\ out.op = "arp_reply"
    /\ Len(out.frames) = 1
    /\ IsReplyTo(out.frames[1], "eth0",
                 ArpRequest(2, "00:11:22:33:44:55", 1))
    /\ wpc["eth0"] = "recv"
    /\ 1 \in ipv4_addresses["eth0"]

(***************************************************************************)
(* C17: the Ethernet destination of an ARP reply.                          *)
(***************************************************************************)
\* C17: the Ethernet frame carrying an ARP reply is sent unicast, its
\* Ethernet destination being the requester's MAC (sender_mac of the
\* ArpRequest); only ARP requests go to the broadcast MAC.
C17_ReplyUnicast ==
    \A k \in DOMAIN out.frames :
        /\ out.frames[k].kind = "arp_reply" =>
              /\ out.frames[k].dst_mac = out.frames[k].b.target_mac
              /\ out.frames[k].dst_mac # BroadcastMac
        /\ out.frames[k].dst_mac = BroadcastMac =>
              out.frames[k].kind = "arp_request"

(***************************************************************************)
(* C18: the next hop of ipv4_tx and its ARP resolution.                    *)
(***************************************************************************)
\* ipv4_tx(dst) enters StackInterface::ipv4_tx and goes past the choice of
\* the source.
LookupStep ==
    \A dst \in IPs :
      (ipv4_tx(dst) /\ apc' # "idle") =>
         \E r \in route(dst) :
            LET nh == NextHop(r, dst)
                i == r.iface
            IN
            /\ actx'.iface = i /\ actx'.dst = dst /\ actx'.local_dst = nh
            /\ out' = out
            /\ IF arp_table[i][nh] # NoMac
               THEN /\ apc' = "eth_tx"
                    /\ actx'.mac = arp_table[i][nh]
                    /\ arp_waiters' = arp_waiters /\ chan' = chan
               ELSE /\ apc' = "arp_tx"
                    /\ actx'.rx \notin DOMAIN chan
                    /\ actx'.rx \in WaitersOf(i, nh)'

\* The call blocks only after its ARP request for the next hop has gone out
\* to the broadcast MAC, and a request goes out only on that path.
RequestBeforeWait ==
    /\ (apc' = "wait" /\ apc # "wait") =>
          /\ apc = "arp_send"
          /\ Len(out'.frames) = 1
          /\ out'.frames[1].kind = "arp_request"
          /\ out'.frames[1].dst_mac = BroadcastMac
          /\ out'.frames[1].b.target_ip = actx.local_dst
          /\ out'.frames[1].a.sender_ip = actx.src
    /\ (out' # out /\ \E k \in DOMAIN out'.frames : out'.frames[k].kind = "arp_request")
          => apc = "arp_send" /\ actx.mac = NoMac
    /\ (apc = "wait" /\ apc' # "wait") =>
          apc' = "eth_tx" /\ actx'.mac = Head(chan[actx.rx])
    /\ (apc = "eth_tx" /\ apc' # "eth_tx") => apc' = "idle"

\* The sender returned is bound to the MAC resolved for the next hop and
\* keeps dst as IP destination, and so do the frames sent through it.
SenderKeepsDst ==
    /\ (apc = "eth_tx" /\ apc' = "idle") =>
          /\ handles \subseteq handles'
          /\ \E h \in handles' :
                h.dst = actx.dst /\ h.dst_mac = actx.mac /\ h.iface = actx.iface
          /\ \A h \in handles' \ handles :
                h.dst = actx.dst /\ h.dst_mac = actx.mac /\ h.iface = actx.iface
    /\ \A res \in DatalinkResults :
          TxBarrier_send(res) =>
             /\ Len(out'.frames) = 1
             /\ out'.frames[1].dst_mac = sending.dst_mac
             /\ out'.frames[1].b.dst = sending.dst

\* C18: StackInterface.ipv4_tx resolves the next hop (the gateway when the
\* route has one, otherwise dst): if the ARP table already binds the next
\* hop it goes on to build a sender bound to that MAC without emitting an ARP
\* request and without blocking; if not, it emits an ARP request for the
\* next hop to ff:ff:ff:ff:ff:ff before it blocks on the waiter; the Ipv4Tx
\* returned keeps dst, not the gateway, as IP destination.
C18_NextHopResolution ==
    [][LookupStep /\ RequestBeforeWait /\ SenderKeepsDst]_vars

\* ipv4_tx(6) through the gateway 2 has returned a sender bound to the
\* gateway's MAC with IP destination 6, the ARP table having had the binding:
\* no waiter was ever registered.
C18_Witness ==
    /\ out = Out("ipv4_tx", "Ok", <<>>)
    /\ chan = <<>>
    /\ \E h \in handles :
          h.dst = 6 /\ h.dst_mac = "00:11:22:33:44:55" /\ h.dst_mac = arp_table["eth0"][2]

(***************************************************************************)
(* C19: the worker's loop.                                                 *)
(***************************************************************************)
IsPrefix(s, t) == Len(s) <= Len(t) /\ \A k \in DOMAIN s : s[k] = t[k]

\* The queue is first in, first out: a step either appends to it or takes
\* its head, and the head is taken only by the worker waiting in recv.
QueueStep(i) ==
    \/ IsPrefix(queue[i], queue'[i])
    \/ /\ queue[i] # <<>>
       /\ queue'[i] = Tail(queue[i])
       /\ wpc[i] = "recv"

\* What taking the head does, by the type of the message.
ProcessStep(i) ==
    (queue[i] # <<>> /\ queue'[i] = Tail(queue[i])) =>
       LET m == Head(queue[i]) IN
       /\ m.type = "UpdateArpTable" =>
             /\ arp_table'[i] = [arp_table[i] EXCEPT ![m.ip] = m.mac]
             /\ wpc'[i] \in {"recv", "inc"}
       /\ m.type = "ArpRequest" =>
             /\ arp_table' = arp_table
             /\ wpc'[i] \in {"recv", "reply_tx"}
       /\ m.type = "Shutdown" =>
             /\ arp_table' = arp_table
             /\ wpc'[i] = "done"

\* The ARP table changes only by the update at the head of the queue.
ArpTableStep(i) ==
    arp_table'[i] # arp_table[i] => TakesUpdate(i)

\* A send of the ARP reply, failed or not, brings the worker back to its
\* queue; a stale sender makes it take a new one.
ReplySendStep(i) ==
    \A res \in DatalinkResults :
        arp_reply_send(i, res) =>
           \/ wpc'[i] = "recv" /\ out'.res = res /\ queue' = queue
           \/ wpc'[i] = "reply_tx" /\ out' = out

\* The worker stops only by taking Shutdown, and once stopped it takes no
\* message and changes nothing.
StopStep(i) ==
    /\ (wpc'[i] = "done" /\ wpc[i] # "done") =>
          /\ wpc[i] = "recv"
          /\ queue[i] # <<>>
          /\ Head(queue[i]).type = "Shutdown"
          /\ queue'[i] = Tail(queue[i])
    /\ wpc[i] = "done" =>
          /\ wpc'[i] = "done"
          /\ IsPrefix(queue[i], queue'[i])
          /\ arp_table'[i] = arp_table[i]
          /\ (out' # out => out'.op # "arp_reply")

WrittenIsPrefix ==
    /\ offset <= Len(payload)
    /\ Len(written) = offset
    /\ \A k \in 1..offset : written[k] = payload[k]

BuildStep ==
    \A buf \in Buffers :
      build(buf) =>
        LET remaining == Len(payload) - offset
            n == IF Len(buf) <= remaining THEN Len(buf) ELSE remaining
        IN
        /\ offset' = offset + n
        /\ Len(buffer') = Len(buf)
        /\ \A k \in 1..Len(buf) :
              buffer'[k] = IF k <= n THEN payload[offset + k] ELSE buf[k]
        /\ written' = written \o [k \in 1..n |-> buffer'[k]]
        /\ n = 0 => buffer' = buf /\ written' = written /\ offset' = offset
        /\ payload' = payload
        /\ len' = len /\ len = Len(payload)

\* C20: for a BasicEthernetPayload with bytes P and any sequence of build
\* calls, call k writes the next min(bk, remaining) bytes of P at the start
\* of its buffer, leaves the rest of the buffer untouched and advances the
\* offset by that amount, so that the written chunks concatenate to a prefix
\* of P; once P is exhausted, or for a zero-length buffer, build writes
\* nothing; len() always returns the full length of P.
C20_BuildChunks == []WrittenIsPrefix /\ [][BuildStep]_vars

\* A payload of three bytes has been handed out entirely and the last call,
\* with a buffer of two bytes, wrote nothing.
C20_Witness ==
    /\ Len(payload) = 3
    /\ offset = 3
    /\ written = payload
    /\ buffer = <<99, 99>>

(***************************************************************************)
(* C21: EthernetTxImpl::send and EthernetBuilder.                          *)
(***************************************************************************)
\* The payload bytes frame k of a send takes, when every frame has room for
\* `size` payload bytes and the payload stands at offset off.
ChunkStart(off, size, k) == min(off + (k - 1) * size, Len(payload))
ChunkLen(off, size, k) == min(size, Len(payload) - ChunkStart(off, size, k))

EthernetSendStep ==
    out'.op = "ethernet_send" =>
      LET packets == out'.args.packets
          size == out'.args.size
          fill == out'.args.fill
      IN
        /\ out'.request.num_packets = packets
        /\ out'.request.packet_size = size + minimum_packet_size
        /\ Len(out'.frames) = packets
        /\ \A k \in 1..packets :
             LET f == out'.frames[k]
                 n == ChunkLen(offset, size, k)
                 at == ChunkStart(offset, size, k)
             IN
             /\ Len(f) = size + minimum_packet_size
             /\ SubSeq(f, 1, 6) = MacBytes(ethernet_tx.dst)
             /\ SubSeq(f, 7, 12) = MacBytes(ethernet_tx.src)
             /\ SubSeq(f, 13, 14) = EtherTypeBytes(ether_type)
             /\ \A j \in 1..size :
                   f[minimum_packet_size + j] =
                      IF j <= n THEN payload[at + j] ELSE fill
        /\ EthernetBuilder_len = minimum_packet_size + Len(payload)
        /\ UNCHANGED <<payload, ether_type, ethernet_tx>>

\* C21: EthernetTxImpl.send(packets, size, payload) asks the underlying Tx
\* for exactly `packets` frames of size + Ethernet-header-size bytes each,
\* independent of payload.len(); every frame is filled by an EthernetBuilder
\* that writes the handle's dst and src and the payload's EtherType into the
\* header and hands only the region after the header to the payload;
\* EthernetBuilder.len() is the header size plus payload.len().
C21_EthernetSend == [][EthernetSendStep]_vars

\* Two frames of 14 + 2 bytes have been asked for and built for a payload of
\* three bytes: the second frame holds the third byte and one untouched.
C21_Witness ==
    /\ out.op = "ethernet_send"
    /\ out.request = [num_packets |-> 2, packet_size |-> 16]
    /\ Len(payload) = 3
    /\ Len(out.frames) = 2
    /\ SubSeq(out.frames[1], 15, 16) = SubSeq(payload, 1, 2)
    /\ out.frames[2][15] = payload[3]
    /\ out.frames[2][16] = 99
    /\ EthernetBuilder_len = 17

\* A send step through a handle that was created before a binding of its
\* interface changed to a different MAC: it returns InvalidTx and does not go
\* on to the datalink layer.
ReboundSendStep ==
    \A h \in handles :
        (TxImpl_send(h, SpecCall.num_packets, SpecCall.packet_size) /\ h.preArp) =>
            /\ out' = Out("send", "InvalidTx", <<>>)
            /\ sending' = Nil

\* C22: under every interleaving of application sends with the worker, once
\* the ARP table's binding for an IP has changed to a different MAC no send
\* through a handle created before that change reaches the datalink layer,
\* sends that run between the worker's table insert and its barrier
\* increment included.
C22_NoSendAfterRebind == [][ReboundSendStep]_vars

\* No barrier increment has happened since h was created: no set_mtu, no
\* increment of the worker for a changed binding, no drop of the interface.
Fresh(h) == ~h.preMtu /\ ~h.preArpInc /\ ~Bumped(h.iface)

\* A send step through a handle with no increment since its creation: it
\* does not return InvalidTx and goes on, with the caller's arguments and
\* the mutex held, to the datalink sender.
FreshSendStep ==
    \A h \in handles, c \in SendCalls :
        (TxImpl_send(h, c.num_packets, c.packet_size) /\ Fresh(h)) =>
            /\ out' = out
            /\ mutex'[h.iface] = "snd"
            /\ SendingHandle' = h
            /\ sending'.num_packets = c.num_packets
            /\ sending'.packet_size = c.packet_size

\* The datalink step of a send: one call with the arguments of the send,
\* the outcome Ok, an I/O error or the error of the missing buffer, and the
\* send is over.
DatalinkSendStep ==
    \A res \in DatalinkResults :
        TxBarrier_send(res) =>
            /\ out'.op = "send"
            /\ out'.request = Call(sending.num_packets, sending.packet_size)
            /\ Len(out'.frames) = 1
            /\ res = "Ok" => out'.res = "Ok"
            /\ res = "IoError" => out'.res = "IoError"
            /\ res = "NoBuf" => out'.res = "Other(Insufficient buffer space)"
            /\ out'.res # "InvalidTx"
            /\ sending' = Nil

\* C23: a handle never fails spuriously: if no barrier increment (changed
\* ARP binding, set_mtu, interface drop) happens between the creation of a
\* handle and a send through it, the send does not return InvalidTx and the
\* datalink sender is invoked exactly once with the caller's num_packets and
\* packet_size; the outcome is Ok on success, an I/O error when the datalink
\* fails and a distinct "Insufficient buffer space" error when the datalink
\* returns None.
C23_FreshSendReachesDatalink ==
    /\ [](\A h \in handles : Fresh(h) => ~Stale(h.iface, h.version))
    /\ [][FreshSendStep]_vars
    /\ [][DatalinkSendStep]_vars

\* A send of two packets of 34 bytes through a handle with no increment
\* since its creation has ended with the error of the missing buffer.
C23_Witness ==
    /\ out.op = "send"
    /\ out.res = "Other(Insufficient buffer space)"
    /\ out.request = Call(2, 34)
    /\ \E h \in handles : Fresh(h) /\ out.frames = <<Ipv4Frame(h)>>

\* The barrier mutex is held across steps by a send of the application on
\* its way to the datalink only; the dropping thread and the worker, with or
\* without the read lock of the local IPs, release it in the statement that
\* took it.
MutexHeldBySendOnly ==
    \A i \in Interfaces :
        mutex[i] # None => sending # Nil /\ sending.iface = i /\ mutex[i] = "snd"

\* The thread that drops interface i is joining the worker.
Joining(i) == dpc[i] = "shutdown"

\* Once the barrier is bumped for the drop no send of the application
\* holds the mutex, so neither the join nor the worker's way to Shutdown
\* waits for it; the join waits for a worker that has Shutdown ahead of it.
DropHoldsNoLock ==
    \A i \in Interfaces :
        /\ Bumped(i) => mutex[i] = None
        /\ Joining(i) => wpc[i] = "done" \/ ShutdownQueued(i)
        /\ dpc[i] = "joined" => wpc[i] = "done"

\* C24: dropping a StackInterface always terminates, provided datalink
\* sends return: the drop does not hold the barrier mutex while it joins,
\* no thread holds the barrier mutex while it takes the read lock of the
\* local IPs, the worker reaches Shutdown, exits, and the join returns,
\* although the receive thread still holds a sender of the queue.
C24_DropTerminates ==
    /\ []MutexHeldBySendOnly
    /\ []DropHoldsNoLock
    /\ \A i \in SpecIfaces : Bumped(i) ~> dpc[i] = "joined"

\* The join has returned and the queue still holds a message the receive
\* thread sent after Shutdown.
C24_Witness ==
    \E i \in SpecIfaces :
        /\ dpc[i] = "joined"
        /\ wpc[i] = "done"
        /\ queue[i] # <<>>

=============================================================================
